---- MODULE Spec2Model ----
(***************************************************************************)
(* The azrealtime session client: one websocket handle shared by caller    *)
(* goroutines, the receive loop (readLoop) and the keepalive loop          *)
(* (pingLoop).  Every goroutine is a process with a program counter; one   *)
(* action is one step of the code between two scheduling points.          *)
(*                                                                         *)
(* Two revisions of the client are in the sources: the one that guards    *)
(* closedCh with sync.Once and the handlers with handlerMu (ver = "once"), *)
(* and the one of src/client.go that tests closedCh with a select before   *)
(* closing it and has no handler lock (ver = "select").                    *)
(*                                                                         *)
(* Outside the connection the module holds Client.nextEventID with the     *)
(* wall clock it reads, and TextAssembler and AudioAssembler, each with a   *)
(* specification of its own.                                               *)
(***************************************************************************)
EXTENDS Naturals, Integers, Sequences, FiniteSets

\* Bound on the number of inbound messages the receive loop reads.
MaxMsgs == 2

\* AppendPCM16's chunk limit, 1024 * 1024 bytes.
maxChunkSize == 1048576

\* Bound on the number of caller goroutines.
NumCallers == 1

\* Bound on the wall clock, in nanoseconds since the first reading.
MaxNow == 3

\* Bound on the number of nextEventID calls.
MaxIds == 3

\* Bound on the number of assembler calls.
MaxOps == 4

\* Bound on RetryConfig.MaxRetries, the default configuration apart.
MaxN == 2

\* Bound on the attempt index given to calculateDelay.
MaxAttempt == 5

\* Bound on the circuit breaker's thresholds.
MaxThreshold == 2

\* Bound on the number of Execute calls.
MaxExec == 5

Callers == {<<"caller", i>> : i \in 1..NumCallers}
RL == <<"readLoop", 0>>
PL == <<"pingLoop", 0>>
Free == <<"free", 0>>
\* The goroutines that may run client methods: callers, and the receive loop
\* from inside a callback.
Threads == Callers \cup {RL}

SendMethods ==
  {"SessionUpdate", "CreateResponse", "CancelResponse",
   "AppendPCM16", "InputCommit", "InputClear"}

\* Payload lengths tried with AppendPCM16.
PCMLens == {0, 1, 2, maxChunkSize, maxChunkSize + 1, maxChunkSize + 2}

\* Inbound type tags: known to both revisions, known to the sync.Once
\* revision only, known to neither.
TagError == "error"
TagResponseDone == "response.done"
TagUnknown == "unknown.event"
\* Callbacks a caller may register, and the nil callback.
HandlerIds == {"f1", "f2"}
NoHandler == "nil"

KnownTags(v) ==
  IF v = "once" THEN {TagError, TagResponseDone} ELSE {TagError}

\* Wire messages: a binary frame, a text frame that is not JSON, and text
\* frames carrying a JSON object with a "type" string; shape tells whether
\* the object decodes into the event struct of its type.
BinaryMsg == [kind |-> "binary", json |-> FALSE, type |-> "", shape |-> TRUE]
BadJsonMsg == [kind |-> "text", json |-> FALSE, type |-> "", shape |-> TRUE]
TextMsg(t) == [kind |-> "text", json |-> TRUE, type |-> t, shape |-> TRUE]
\* A JSON object with type tag t and a field of the wrong JSON type.
BadShapeMsg(t) == [kind |-> "text", json |-> TRUE, type |-> t, shape |-> FALSE]
Msgs ==
  {BinaryMsg, BadJsonMsg} \cup {TextMsg(t) : t \in {TagError, TagResponseDone, TagUnknown}}

\* Goroutines that call CreateResponse, hence nextEventID.
IdCallers == {"g1", "g2"}

\* Response ids used as assembler keys.
Keys == {"resp_1", "resp_2"}

\* The record of an assembler call: the assembler, the method, the key, the
\* final text given to TextAssembler.OnDone, the value and error returned.
Op(a, o, k, t, r, e) ==
  [asm |-> a, op |-> o, key |-> k, text |-> t, ret |-> r, err |-> e]
NoOp == Op("none", "none", "", <<>>, <<>>, "nil")

\* The zero TurnDetection.
NoTurnDetection ==
  [Type |-> "", Threshold |-> [nan |-> FALSE, v |-> 0], PrefixPaddingMS |-> 0,
   SilenceDurationMS |-> 0, Eagerness |-> ""]

\* The zero RetryConfig: no retries, no delay, nil predicate.
NoRetryConfig ==
  [MaxRetries |-> 0, BaseDelay |-> 0, MaxDelay |-> 0, Multiplier |-> 0,
   Jitter |-> 0, RetryableErrors |-> "nil"]

\* Values of type *SendError the client returns.
SendErrors ==
  {"SendError(context cannot be nil)", "SendError(validation)",
   "SendError(PCM16 data must have even number of bytes)",
   "SendError(PCM data too large)", "SendError(marshal payload)",
   "SendError(write)", "SendError(ErrSendTimeout)"}

VARIABLES
  ver,          \* revision of the client: "once" or "select"
  conn,         \* c.conn: "ws" or "nil"
  writeMu,      \* c.writeMu: Free or the goroutine holding it
  cancelled,    \* readCancel has been called
  closedCh,     \* c.closedCh is closed
  closeOnce,    \* c.closeOnce has run
  closeCount,   \* number of close(c.closedCh) executed
  panic,        \* "none", or the runtime panic that ended the process
  ws,           \* the transport: [closed, broken, closes, misuse]
  pc,           \* per thread: position inside a client method; "returned" when
                \* the method has returned, "idle" outside
  call,         \* per thread: the call in progress or just returned: its kind,
                \* whether it began after a Close had returned (afterClose) or
                \* after the receive loop had exited (afterExit), whether it
                \* reached c.send (toSend) and wrote to the transport (wrote)
  ret,          \* per thread: result of the last returned call
  rl,           \* receive loop: [pc, h, msg, err, panicking]
  pl,           \* keepalive loop position
  handlers,     \* callback slot per tag, NoHandler when nil
  handlerMu,    \* number of read locks held on c.handlerMu
  arrived,      \* messages read from the wire, in order
  invoked,      \* callbacks started: <<index in arrived, tag, handler>>
  running,      \* indexes of callbacks that have started and not returned
  logged,       \* log events: <<index in arrived, event>>
  closeReturned, \* some Close() call has returned
  now,          \* time.Now().UnixNano(), relative to the first reading
  idpc,         \* per goroutine in nextEventID: [pc, t], t the clock value read
  issued,       \* event ids generated, in order
  textData,     \* TextAssembler.data: response id -> bytes
  audioData,    \* AudioAssembler.data: response id -> bytes
  acc,          \* per assembler and key: the chunks accepted since the key's
                \* last OnDone, as the peer sent them
  last,         \* the last assembler call and its result
  prev,         \* the assembler call before it
  ops,          \* number of assembler calls made
  rt,           \* the WithRetry call: position, configuration, operation,
                \* attempt, invocations made (calls), err and lastErr, the
                \* value returned, the delay computed, the waits begun and
                \* completed, whether the context was cancelled during a wait
  ctxDone,      \* the context given to WithRetry is cancelled
  dl,           \* the last calculateDelay call and its result
  cb,           \* CircuitBreaker: state, failures, successes, lastFailureTime
  cbcfg,        \* CircuitBreaker.config
  lastExec,     \* the last Execute: the breaker before it, the state
                \* shouldAllow left, whether op ran, the result, the time
  streak,       \* consecutive failed operations run by Execute
  hsucc,        \* consecutive successes since the breaker went Half-Open
  execs,        \* number of Execute calls made
  vs            \* the ValidateSession call: its argument and its result

clientVars ==
  <<ver, conn, writeMu, cancelled, closedCh, closeOnce, closeCount, panic, ws,
    pc, call, ret, rl, pl, handlers, handlerMu, arrived, invoked, running,
    logged, closeReturned>>

idVars == <<now, idpc, issued>>
asmVars == <<textData, audioData, acc, last, prev, ops>>
\* State outside the connection: the clock and the ids, the assemblers.
retryVars == <<rt, ctxDone>>
delayVars == <<dl>>
breakerVars == <<cb, cbcfg, lastExec, streak, hsucc, execs>>
\* State of resilience.go.
resVars == <<retryVars, delayVars, breakerVars>>
valVars == <<vs>>
libVars == <<idVars, asmVars, resVars, valVars>>

vars == <<clientVars, libVars>>

connVars == <<conn, ws>>
sigVars == <<closedCh, closeOnce, closeCount>>
loopVars == <<rl, arrived, invoked, running, logged, handlerMu>>
callVars == <<pc, call, ret>>

NoCall ==
  [kind |-> "none", afterClose |-> FALSE, afterExit |-> FALSE, toSend |-> FALSE,
   wrote |-> FALSE, marshals |-> TRUE, tag |-> "", fn |-> NoHandler,
   werr |-> "none"]

InitCommon ==
  /\ conn = "ws"
  /\ writeMu = Free
  /\ cancelled = FALSE
  /\ closedCh = FALSE
  /\ closeOnce = FALSE
  /\ closeCount = 0
  /\ panic = "none"
  /\ ws = [closed |-> FALSE, broken |-> FALSE, closes |-> 0, misuse |-> FALSE]
  /\ pc = [p \in Threads |-> "idle"]
  /\ call = [p \in Threads |-> NoCall]
  /\ ret = [p \in Threads |-> "none"]
  /\ rl = [pc |-> "load", h |-> "nil", msg |-> BinaryMsg, err |-> "none",
           panicking |-> FALSE]
  /\ pl = "select"
  /\ handlers = [t \in {TagError, TagResponseDone} |-> NoHandler]
  /\ handlerMu = 0
  /\ arrived = <<>>
  /\ invoked = <<>>
  /\ running = {}
  /\ logged = <<>>
  /\ closeReturned = FALSE
  /\ now = 0
  /\ idpc = [g \in IdCallers |-> [pc |-> "idle", t |-> 0]]
  /\ issued = <<>>
  /\ textData = <<>>
  /\ audioData = <<>>
  /\ acc = [a \in {"text", "audio"} |-> [k \in Keys |-> <<>>]]
  /\ last = NoOp
  /\ prev = NoOp
  /\ ops = 0
  /\ rt = [pc |-> "idle", config |-> NoRetryConfig,
           op |-> [kind |-> "func", m |-> "", valid |-> TRUE, len |-> 0],
           attempt |-> 0, calls |-> 0, err |-> "nil", lastErr |-> "nil",
           ret |-> <<>>, delay |-> 0, waits |-> 0, slept |-> 0, hit |-> FALSE]
  /\ ctxDone = FALSE
  /\ dl = [called |-> FALSE, attempt |-> 0, config |-> NoRetryConfig, out |-> 0]
  /\ cb = [state |-> "none", failures |-> 0, successes |-> 0,
           lastFailureTime |-> [zero |-> TRUE, at |-> 0]]
  /\ cbcfg = [FailureThreshold |-> 1, RecoveryTimeout |-> 1, SuccessThreshold |-> 1]
  /\ lastExec = [before |-> cb, allowedAs |-> "none", invoked |-> FALSE,
                 ret |-> "nil", at |-> 0]
  /\ streak = 0
  /\ hsucc = 0
  /\ execs = 0
  /\ vs = [called |-> FALSE,
           s |-> [Voice |-> [set |-> FALSE, v |-> ""],
                  InputAudioFormat |-> [set |-> FALSE, v |-> ""],
                  OutputAudioFormat |-> [set |-> FALSE, v |-> ""],
                  TurnDetection |-> [set |-> FALSE, v |-> NoTurnDetection],
                  Instructions |-> [set |-> FALSE, v |-> [chars |-> 0, bytes |-> 0]]],
           err |-> "nil"]

\* Dial, sync.Once revision.
Init == ver = "once" /\ InitCommon

\* Dial, revision of src/client.go.
InitSelect == ver = "select" /\ InitCommon

\* A goroutine runs only while the process has not panicked.
Alive == panic = "none"

\* A thread may enter a client method: a caller at any time, the receive
\* loop only from inside a running callback.
CanCall(p) ==
  /\ Alive
  /\ pc[p] = "idle"
  /\ (p = RL => rl.pc = "in_cb")

\* The record of a call at its entry: "Close" or "send" (one of SendMethods),
\* and what had happened when it began.
Begin(p, k) ==
  [kind |-> k, afterClose |-> closeReturned, afterExit |-> rl.pc = "exited",
   toSend |-> FALSE, wrote |-> FALSE, marshals |-> TRUE, tag |-> "",
   fn |-> NoHandler, werr |-> "none"]


(***************************************************************************)
(* The transport's write-side operations.                                  *)
(***************************************************************************)
\* conn.Close(status, reason).
TransportClose(w) ==
  [w EXCEPT !.closed = TRUE, !.closes = @ + 1, !.misuse = @ \/ w.closed]

\* conn.Write / conn.Ping: on a closed handle it is a use after close.
TransportUse(w) == [w EXCEPT !.misuse = @ \/ w.closed]

\* The peer closes the connection or the network fails.
TransportFail ==
  /\ Alive
  /\ ~ws.broken
  /\ ws' = [ws EXCEPT !.broken = TRUE]
  /\ UNCHANGED <<ver, libVars, conn, writeMu, cancelled, sigVars, panic, callVars, pl,
                 handlers, loopVars, closeReturned>>

(***************************************************************************)
(* Client.Close                                                            *)
(***************************************************************************)
\* if c.readCancel != nil { c.readCancel() }
CloseCall(p) ==
  /\ CanCall(p)
  /\ cancelled' = TRUE
  /\ call' = [call EXCEPT ![p] = Begin(p, "Close")]
  /\ ret' = [ret EXCEPT ![p] = "none"]
  /\ pc' = [pc EXCEPT ![p] = "close_lock"]
  /\ UNCHANGED <<ver, libVars, connVars, writeMu, sigVars, panic, pl, handlers, loopVars,
                 closeReturned>>

\* Mutant of CloseLock: Close goes on without taking writeMu.
CloseLockNoMutex(p) ==
  /\ Alive
  /\ pc[p] = "close_lock"
  /\ pc' = [pc EXCEPT ![p] = "close_conn"]
  /\ UNCHANGED <<ver, libVars, connVars, writeMu, cancelled, sigVars, panic, call, ret, pl,
                 handlers, loopVars, closeReturned>>

\* c.writeMu.Lock()
CloseLock(p) ==
  /\ Alive
  /\ pc[p] = "close_lock"
  /\ writeMu = Free
  /\ writeMu' = p
  /\ pc' = [pc EXCEPT ![p] = "close_conn"]
  /\ UNCHANGED <<ver, libVars, connVars, cancelled, sigVars, panic, call, ret, pl, handlers,
                 loopVars, closeReturned>>

\* if c.conn != nil { _ = c.conn.Close(...)
CloseConn(p) ==
  /\ Alive
  /\ pc[p] = "close_conn"
  /\ IF conn # "nil"
       THEN /\ ws' = TransportClose(ws)
            /\ pc' = [pc EXCEPT ![p] = "close_clear"]
       ELSE /\ ws' = ws
            /\ pc' = [pc EXCEPT ![p] = "close_unlock"]
  /\ UNCHANGED <<ver, libVars, conn, writeMu, cancelled, sigVars, panic, call, ret, pl,
                 handlers, loopVars, closeReturned>>

\* Mutant of CloseClear: the handle is left set after the transport is closed.
CloseClearSkip(p) ==
  /\ Alive
  /\ pc[p] = "close_clear"
  /\ pc' = [pc EXCEPT ![p] = "close_unlock"]
  /\ UNCHANGED <<ver, libVars, connVars, writeMu, cancelled, sigVars, panic, call, ret, pl,
                 handlers, loopVars, closeReturned>>

\* c.conn = nil }
CloseClear(p) ==
  /\ Alive
  /\ pc[p] = "close_clear"
  /\ conn' = "nil"
  /\ pc' = [pc EXCEPT ![p] = "close_unlock"]
  /\ UNCHANGED <<ver, libVars, ws, writeMu, cancelled, sigVars, panic, call, ret, pl,
                 handlers, loopVars, closeReturned>>

\* c.writeMu.Unlock()
CloseUnlock(p) ==
  /\ Alive
  /\ pc[p] = "close_unlock"
  /\ writeMu' = Free
  /\ pc' = [pc EXCEPT ![p] = "close_signal"]
  /\ UNCHANGED <<ver, libVars, connVars, cancelled, sigVars, panic, call, ret, pl, handlers,
                 loopVars, closeReturned>>

\* close(ch) of the Go runtime: closing a closed channel panics.
CloseChannel ==
  IF closedCh
    THEN /\ panic' = "close of closed channel"
         /\ UNCHANGED <<closedCh, closeCount>>
    ELSE /\ closedCh' = TRUE
         /\ closeCount' = closeCount + 1
         /\ panic' = panic

\* c.closeOnce.Do(func() { close(c.closedCh) })
OnceDo ==
  IF closeOnce
    THEN UNCHANGED <<sigVars, panic>>
    ELSE /\ closeOnce' = TRUE
         /\ CloseChannel

\* Close: c.closeOnce.Do(...); return nil
CloseSignal(p) ==
  /\ Alive
  /\ ver = "once"
  /\ pc[p] = "close_signal"
  /\ OnceDo
  /\ pc' = [pc EXCEPT ![p] = "returned"]
  /\ ret' = [ret EXCEPT ![p] = "nil"]
  /\ closeReturned' = TRUE
  /\ UNCHANGED <<ver, libVars, connVars, writeMu, cancelled, call, pl, handlers, loopVars>>

\* src/client.go: select { case <-c.closedCh: default: ... }; the test of the
\* channel and the close that follows are two steps.
CloseSelect(p) ==
  /\ Alive
  /\ ver = "select"
  /\ pc[p] = "close_signal"
  /\ IF closedCh
       THEN /\ pc' = [pc EXCEPT ![p] = "returned"]
            /\ ret' = [ret EXCEPT ![p] = "nil"]
            /\ closeReturned' = TRUE
       ELSE /\ pc' = [pc EXCEPT ![p] = "close_chan"]
            /\ UNCHANGED <<ret, closeReturned>>
  /\ UNCHANGED <<ver, libVars, connVars, writeMu, cancelled, sigVars, panic, call, pl,
                 handlers, loopVars>>

\* src/client.go: default: close(c.closedCh) }; return nil
CloseChan(p) ==
  /\ Alive
  /\ ver = "select"
  /\ pc[p] = "close_chan"
  /\ CloseChannel
  /\ closeOnce' = closeOnce
  /\ pc' = [pc EXCEPT ![p] = "returned"]
  /\ ret' = [ret EXCEPT ![p] = "nil"]
  /\ closeReturned' = TRUE
  /\ UNCHANGED <<ver, libVars, connVars, writeMu, cancelled, call, pl, handlers, loopVars>>


(***************************************************************************)
(* The send-path methods and Client.send                                   *)
(***************************************************************************)
\* Arguments of a send-path call: a nil or live context, a payload that
\* passes or fails ValidateSession / ValidateCreateResponseOptions, a payload
\* json.Marshal accepts or rejects, and the PCM length of AppendPCM16.
Args(m) ==
  [ctxNil : BOOLEAN,
   valid : IF m \in {"SessionUpdate", "CreateResponse"} THEN BOOLEAN ELSE {TRUE},
   marshals : IF m \in {"SessionUpdate", "CreateResponse"} THEN BOOLEAN ELSE {TRUE},
   len : IF m = "AppendPCM16" THEN PCMLens ELSE {0}]

\* Mutant of Precheck: the context is not tested.
PrecheckNoCtxTest(m, a) ==
  IF m \in {"SessionUpdate", "CreateResponse"} /\ ~a.valid
    THEN "SendError(validation)"
  ELSE IF m = "AppendPCM16" /\ a.len = 0 THEN "nil"
  ELSE IF m = "AppendPCM16" /\ a.len % 2 # 0
    THEN "SendError(PCM16 data must have even number of bytes)"
  ELSE IF m = "AppendPCM16" /\ a.len > maxChunkSize
    THEN "SendError(PCM data too large)"
  ELSE "send"

\* Mutant of Precheck: the payload is not validated.
PrecheckNoValidation(m, a) ==
  IF a.ctxNil THEN "SendError(context cannot be nil)"
  ELSE IF m = "AppendPCM16" /\ a.len = 0 THEN "nil"
  ELSE IF m = "AppendPCM16" /\ a.len % 2 # 0
    THEN "SendError(PCM16 data must have even number of bytes)"
  ELSE IF m = "AppendPCM16" /\ a.len > maxChunkSize
    THEN "SendError(PCM data too large)"
  ELSE "send"

\* Mutant of Precheck: a chunk of exactly maxChunkSize bytes is too large.
PrecheckLimitExclusive(m, a) ==
  IF a.ctxNil THEN "SendError(context cannot be nil)"
  ELSE IF m \in {"SessionUpdate", "CreateResponse"} /\ ~a.valid
    THEN "SendError(validation)"
  ELSE IF m = "AppendPCM16" /\ a.len = 0 THEN "nil"
  ELSE IF m = "AppendPCM16" /\ a.len % 2 # 0
    THEN "SendError(PCM16 data must have even number of bytes)"
  ELSE IF m = "AppendPCM16" /\ a.len >= maxChunkSize
    THEN "SendError(PCM data too large)"
  ELSE "send"

\* What the method does before it reaches Client.send: the error it returns
\* at once, "nil" for the empty append, or "send".
Precheck(m, a) ==
  IF a.ctxNil THEN "SendError(context cannot be nil)"
  ELSE IF m \in {"SessionUpdate", "CreateResponse"} /\ ~a.valid
    THEN "SendError(validation)"
  ELSE IF m = "AppendPCM16" /\ a.len = 0 THEN "nil"
  ELSE IF m = "AppendPCM16" /\ a.len % 2 # 0
    THEN "SendError(PCM16 data must have even number of bytes)"
  ELSE IF m = "AppendPCM16" /\ a.len > maxChunkSize
    THEN "SendError(PCM data too large)"
  ELSE "send"

\* Entry of SessionUpdate, CreateResponse, CancelResponse, AppendPCM16,
\* InputCommit, InputClear up to the call of c.send.
SendCall(p, m, a) ==
  /\ CanCall(p)
  /\ call' = [call EXCEPT ![p] = [Begin(p, "send") EXCEPT
                                    !.toSend = Precheck(m, a) = "send",
                                    !.marshals = Precheck(m, a) # "send" \/ a.marshals]]
  /\ IF Precheck(m, a) = "send"
       THEN /\ pc' = [pc EXCEPT ![p] = "send_lock"]
            /\ ret' = [ret EXCEPT ![p] = "none"]
       ELSE /\ pc' = [pc EXCEPT ![p] = "returned"]
            /\ ret' = [ret EXCEPT ![p] = Precheck(m, a)]
  /\ UNCHANGED <<ver, libVars, connVars, writeMu, cancelled, sigVars, panic, pl, handlers,
                 loopVars, closeReturned>>

\* send: c.writeMu.Lock(); defer c.writeMu.Unlock()
SendLock(p) ==
  /\ Alive
  /\ pc[p] = "send_lock"
  /\ writeMu = Free
  /\ writeMu' = p
  /\ pc' = [pc EXCEPT ![p] = "send_check"]
  /\ UNCHANGED <<ver, libVars, connVars, cancelled, sigVars, panic, call, ret, pl, handlers,
                 loopVars, closeReturned>>

\* Mutant of SendCheck: the test of c.conn is missing.
SendCheckNoNilTest(p) ==
  /\ Alive
  /\ pc[p] = "send_check"
  /\ IF ~call[p].marshals
       THEN /\ ret' = [ret EXCEPT ![p] = "SendError(marshal payload)"]
            /\ pc' = [pc EXCEPT ![p] = "send_unlock"]
       ELSE /\ ret' = ret
            /\ pc' = [pc EXCEPT ![p] = "send_write"]
  /\ call' = [call EXCEPT ![p].marshals = TRUE]
  /\ UNCHANGED <<ver, libVars, connVars, writeMu, cancelled, sigVars, panic, pl, handlers,
                 loopVars, closeReturned>>

\* Mutant of SendCheck: the closed-client exit returns without the unlock.
SendCheckReturnsLocked(p) ==
  /\ Alive
  /\ pc[p] = "send_check"
  /\ IF conn = "nil"
       THEN /\ ret' = [ret EXCEPT ![p] = "ErrClosed"]
            /\ pc' = [pc EXCEPT ![p] = "returned"]
       ELSE IF ~call[p].marshals
         THEN /\ ret' = [ret EXCEPT ![p] = "SendError(marshal payload)"]
              /\ pc' = [pc EXCEPT ![p] = "send_unlock"]
         ELSE /\ ret' = ret
              /\ pc' = [pc EXCEPT ![p] = "send_write"]
  /\ call' = [call EXCEPT ![p].marshals = TRUE]
  /\ UNCHANGED <<ver, libVars, connVars, writeMu, cancelled, sigVars, panic, pl, handlers,
                 loopVars, closeReturned>>

\* send: if c.conn == nil { return ErrClosed }; b, err := json.Marshal(payload)
SendCheck(p) ==
  /\ Alive
  /\ pc[p] = "send_check"
  /\ IF conn = "nil"
       THEN /\ ret' = [ret EXCEPT ![p] = "ErrClosed"]
            /\ pc' = [pc EXCEPT ![p] = "send_unlock"]
       ELSE IF ~call[p].marshals
         THEN /\ ret' = [ret EXCEPT ![p] = "SendError(marshal payload)"]
              /\ pc' = [pc EXCEPT ![p] = "send_unlock"]
         ELSE /\ ret' = ret
              /\ pc' = [pc EXCEPT ![p] = "send_write"]
  /\ call' = [call EXCEPT ![p].marshals = TRUE]
  /\ UNCHANGED <<ver, libVars, connVars, writeMu, cancelled, sigVars, panic, pl, handlers,
                 loopVars, closeReturned>>

\* What conn.Write returns under the 15 s deadline: nil, the deadline's
\* error, or the transport's own error when the connection is closed or has
\* failed.
ConnWriteResults(w) ==
  IF w.closed \/ w.broken
    THEN {"transport error", "context.DeadlineExceeded"}
    ELSE {"nil", "context.DeadlineExceeded"}

\* Mutant of WriteError: a deadline error is wrapped like any other.
WriteErrorGeneric(err) ==
  IF err = "nil" THEN "nil" ELSE "SendError(write)"

\* send: if err != nil { if errors.Is(err, context.DeadlineExceeded) { return
\* NewSendError(..., ErrSendTimeout) }; return NewSendError(..., err) }
WriteError(err) ==
  IF err = "nil" THEN "nil"
  ELSE IF err = "context.DeadlineExceeded" THEN "SendError(ErrSendTimeout)"
  ELSE "SendError(write)"

\* Results of the write as send returns them.
WriteResults(w) == {WriteError(err) : err \in ConnWriteResults(w)}

\* SendError.Cause of the errors send builds from a write.
Cause(e) ==
  IF e = "SendError(ErrSendTimeout)" THEN "ErrSendTimeout"
  ELSE IF e = "SendError(write)" THEN "transport error"
  ELSE "other"

\* SendError.IsTimeout: errors.Is(e.Cause, ErrSendTimeout)
IsTimeout(e) == Cause(e) = "ErrSendTimeout"

\* send: err = c.conn.Write(ctx, websocket.MessageText, b)
SendWrite(p) ==
  /\ Alive
  /\ pc[p] = "send_write"
  /\ \E err \in ConnWriteResults(ws) :
       /\ ret' = [ret EXCEPT ![p] = WriteError(err)]
       /\ call' = [call EXCEPT ![p].wrote = TRUE, ![p].werr = err]
  /\ ws' = TransportUse(ws)
  /\ pc' = [pc EXCEPT ![p] = "send_unlock"]
  /\ UNCHANGED <<ver, libVars, conn, writeMu, cancelled, sigVars, panic, pl, handlers,
                 loopVars, closeReturned>>

\* send: the deferred c.writeMu.Unlock() and the return.
SendUnlock(p) ==
  /\ Alive
  /\ pc[p] = "send_unlock"
  /\ writeMu' = Free
  /\ pc' = [pc EXCEPT ![p] = "returned"]
  /\ UNCHANGED <<ver, libVars, connVars, cancelled, sigVars, panic, call, ret, pl, handlers,
                 loopVars, closeReturned>>

(***************************************************************************)
(* Handler registration (OnError, OnResponseDone, ...)                     *)
(***************************************************************************)
\* Entry of OnX(fn) for the slot of tag t, from a caller or from inside a
\* callback: the goroutine arrives at c.handlerMu.Lock() (at the assignment in
\* the revision of src/client.go, which has no lock).
OnHandler(p, t, f) ==
  /\ CanCall(p)
  /\ t \in KnownTags(ver)
  /\ call' = [call EXCEPT ![p] = [Begin(p, "On") EXCEPT !.tag = t, !.fn = f]]
  /\ ret' = [ret EXCEPT ![p] = "none"]
  /\ pc' = [pc EXCEPT ![p] = "on_lock"]
  /\ UNCHANGED <<ver, libVars, connVars, writeMu, cancelled, sigVars, panic, pl, handlers,
                 loopVars, closeReturned>>

\* Mutant of OnHandlerSet: a slot that already holds a callback keeps it.
OnHandlerSetFirstWins(p) ==
  /\ Alive
  /\ pc[p] = "on_lock"
  /\ (ver = "once" => handlerMu = 0)
  /\ handlers' = IF handlers[call[p].tag] = NoHandler
                   THEN [handlers EXCEPT ![call[p].tag] = call[p].fn]
                   ELSE handlers
  /\ pc' = [pc EXCEPT ![p] = "returned"]
  /\ UNCHANGED <<ver, libVars, connVars, writeMu, cancelled, sigVars, panic, call, ret, pl,
                 loopVars, closeReturned>>

\* c.handlerMu.Lock(); defer c.handlerMu.Unlock(); c.onX = fn.  The write lock
\* is granted only when no read lock is held; the critical section is the
\* one assignment.
OnHandlerSet(p) ==
  /\ Alive
  /\ pc[p] = "on_lock"
  /\ (ver = "once" => handlerMu = 0)
  /\ handlers' = [handlers EXCEPT ![call[p].tag] = call[p].fn]
  /\ pc' = [pc EXCEPT ![p] = "returned"]
  /\ UNCHANGED <<ver, libVars, connVars, writeMu, cancelled, sigVars, panic, call, ret, pl,
                 loopVars, closeReturned>>


\* The caller takes the result of the call that returned and goes on.
Return(p) ==
  /\ Alive
  /\ pc[p] = "returned"
  /\ pc' = [pc EXCEPT ![p] = "idle"]
  /\ call' = [call EXCEPT ![p] = NoCall]
  /\ ret' = [ret EXCEPT ![p] = "none"]
  /\ UNCHANGED <<ver, libVars, connVars, writeMu, cancelled, sigVars, panic, pl, handlers,
                 loopVars, closeReturned>>

(***************************************************************************)
(* Client.readLoop and Client.dispatch                                     *)
(***************************************************************************)
\* json.Unmarshal(data, &env): the type tag of a JSON object, an error for
\* anything that is not JSON.
UnmarshalEnvelope(m) ==
  IF m.json THEN [ok |-> TRUE, Type |-> m.type] ELSE [ok |-> FALSE, Type |-> ""]

\* json.Unmarshal(raw, &e) in a case of dispatch: an error when a field of
\* the object has the wrong JSON type; e then holds what was decoded.
UnmarshalEvent(m) == [ok |-> m.shape]

\* for { ... c.conn ...: the loop evaluates the field c.conn without holding
\* writeMu, so it sees whatever Close has stored by then.
RlLoad ==
  /\ Alive
  /\ rl.pc = "load"
  /\ rl' = [rl EXCEPT !.pc = "read", !.h = conn]
  /\ UNCHANGED <<ver, libVars, connVars, writeMu, cancelled, sigVars, panic, callVars, pl,
                 handlers, arrived, invoked, running, logged, handlerMu,
                 closeReturned>>

\* typ, data, err := c.conn.Read(ctx) with a nil receiver: a nil pointer
\* dereference; the goroutine panics and its deferred function runs.
RlReadNil ==
  /\ Alive
  /\ rl.pc = "read"
  /\ rl.h = "nil"
  /\ rl' = [rl EXCEPT !.pc = "exit_lock", !.panicking = TRUE]
  /\ UNCHANGED <<ver, libVars, connVars, writeMu, cancelled, sigVars, panic, callVars, pl,
                 handlers, arrived, invoked, running, logged, handlerMu,
                 closeReturned>>

\* c.conn.Read(ctx) returns a message.
RlReadMsg(m) ==
  /\ Alive
  /\ rl.pc = "read"
  /\ rl.h = "ws"
  /\ ~ws.broken /\ ~ws.closed
  /\ Len(arrived) < MaxMsgs
  /\ arrived' = Append(arrived, m)
  /\ rl' = [rl EXCEPT !.pc = "decode", !.msg = m]
  /\ UNCHANGED <<ver, libVars, connVars, writeMu, cancelled, sigVars, panic, callVars, pl,
                 handlers, invoked, running, logged, handlerMu, closeReturned>>

\* c.conn.Read(ctx) returns an error (transport failure, peer close, closed
\* handle or cancelled context): if err != nil { return }
RlReadErr ==
  /\ Alive
  /\ rl.pc = "read"
  /\ rl.h = "ws"
  /\ ws.broken \/ ws.closed \/ cancelled
  /\ rl' = [rl EXCEPT !.pc = "exit_lock",
                      !.err = IF ws.broken THEN "transport" ELSE "cancelled"]
  /\ UNCHANGED <<ver, libVars, connVars, writeMu, cancelled, sigVars, panic, callVars, pl,
                 handlers, arrived, invoked, running, logged, handlerMu,
                 closeReturned>>

\* Mutant of RlDecode: an envelope that does not decode ends the loop.
RlDecodeReturnOnError ==
  /\ Alive
  /\ rl.pc = "decode"
  /\ IF rl.msg.kind # "text"
       THEN /\ rl' = [rl EXCEPT !.pc = "load"]
            /\ logged' = logged
       ELSE IF ~UnmarshalEnvelope(rl.msg).ok
         THEN /\ rl' = [rl EXCEPT !.pc = "exit_lock"]
              /\ logged' = Append(logged, <<Len(arrived), "bad_event_json">>)
         ELSE /\ rl' = [rl EXCEPT !.pc = "dispatch"]
              /\ logged' = logged
  /\ UNCHANGED <<ver, libVars, connVars, writeMu, cancelled, sigVars, panic, callVars, pl,
                 handlers, arrived, invoked, running, handlerMu, closeReturned>>

\* if typ != websocket.MessageText { continue }
\* if err := json.Unmarshal(data, &env); err != nil { log; continue }
RlDecode ==
  /\ Alive
  /\ rl.pc = "decode"
  /\ IF rl.msg.kind # "text"
       THEN /\ rl' = [rl EXCEPT !.pc = "load"]
            /\ logged' = logged
       ELSE IF ~UnmarshalEnvelope(rl.msg).ok
         THEN /\ rl' = [rl EXCEPT !.pc = "load"]
              /\ logged' = Append(logged, <<Len(arrived), "bad_event_json">>)
         ELSE /\ rl' = [rl EXCEPT !.pc = "dispatch"]
              /\ logged' = logged
  /\ UNCHANGED <<ver, libVars, connVars, writeMu, cancelled, sigVars, panic, callVars, pl,
                 handlers, arrived, invoked, running, handlerMu, closeReturned>>

\* Mutant of RlDispatch: the callback is started on a goroutine of its own
\* and the loop goes on.
RlDispatchAsync ==
  /\ Alive
  /\ rl.pc = "dispatch"
  /\ LET t == UnmarshalEnvelope(rl.msg).Type
         i == Len(arrived)
     IN IF t \in KnownTags(ver)
          THEN IF handlers[t] # NoHandler
                 THEN /\ invoked' = Append(invoked, <<i, t, handlers[t],
                                                       UnmarshalEvent(rl.msg).ok>>)
                      /\ running' = running \cup {i}
                      /\ rl' = [rl EXCEPT !.pc = "load"]
                      /\ UNCHANGED <<handlerMu, logged>>
                 ELSE /\ rl' = [rl EXCEPT !.pc = "load"]
                      /\ UNCHANGED <<invoked, running, handlerMu, logged>>
          ELSE /\ rl' = [rl EXCEPT !.pc = "load"]
               /\ logged' = IF ver = "once"
                              THEN Append(logged, <<i, "unknown_event">>)
                              ELSE logged
               /\ UNCHANGED <<invoked, running, handlerMu>>
  /\ UNCHANGED <<ver, libVars, connVars, writeMu, cancelled, sigVars, panic, callVars, pl,
                 handlers, arrived, closeReturned>>

\* Mutant of RlDispatch: every case calls the callback of "error".
RlDispatchErrorSlot ==
  /\ Alive
  /\ rl.pc = "dispatch"
  /\ LET t == UnmarshalEnvelope(rl.msg).Type
         i == Len(arrived)
     IN IF t \in KnownTags(ver)
          THEN IF handlers[TagError] # NoHandler
                 THEN /\ invoked' = Append(invoked, <<i, t, handlers[TagError],
                                                       UnmarshalEvent(rl.msg).ok>>)
                      /\ running' = running \cup {i}
                      /\ handlerMu' = IF ver = "once" THEN handlerMu + 1 ELSE handlerMu
                      /\ rl' = [rl EXCEPT !.pc = "in_cb"]
                      /\ logged' = logged
                 ELSE /\ rl' = [rl EXCEPT !.pc = "load"]
                      /\ UNCHANGED <<invoked, running, handlerMu, logged>>
          ELSE /\ rl' = [rl EXCEPT !.pc = "load"]
               /\ logged' = IF ver = "once"
                              THEN Append(logged, <<i, "unknown_event">>)
                              ELSE logged
               /\ UNCHANGED <<invoked, running, handlerMu>>
  /\ UNCHANGED <<ver, libVars, connVars, writeMu, cancelled, sigVars, panic, callVars, pl,
                 handlers, arrived, closeReturned>>

\* dispatch: switch env.Type; a known tag decodes the event, discarding the
\* error (_ = json.Unmarshal(raw, &e)), takes handlerMu.RLock (sync.Once
\* revision) and calls the registered callback, if any, on this goroutine;
\* default: logs "unknown_event" (sync.Once revision) or does nothing.
RlDispatch ==
  /\ Alive
  /\ rl.pc = "dispatch"
  /\ LET t == UnmarshalEnvelope(rl.msg).Type
         i == Len(arrived)
     IN IF t \in KnownTags(ver)
          THEN IF handlers[t] # NoHandler
                 THEN /\ invoked' = Append(invoked, <<i, t, handlers[t],
                                                       UnmarshalEvent(rl.msg).ok>>)
                      /\ running' = running \cup {i}
                      /\ handlerMu' = IF ver = "once" THEN handlerMu + 1 ELSE handlerMu
                      /\ rl' = [rl EXCEPT !.pc = "in_cb"]
                      /\ logged' = logged
                 ELSE /\ rl' = [rl EXCEPT !.pc = "load"]
                      /\ UNCHANGED <<invoked, running, handlerMu, logged>>
          ELSE /\ rl' = [rl EXCEPT !.pc = "load"]
               /\ logged' = IF ver = "once"
                              THEN Append(logged, <<i, "unknown_event">>)
                              ELSE logged
               /\ UNCHANGED <<invoked, running, handlerMu>>
  /\ UNCHANGED <<ver, libVars, connVars, writeMu, cancelled, sigVars, panic, callVars, pl,
                 handlers, arrived, closeReturned>>

\* The callback returns to dispatch, which releases the read lock and returns
\* to the loop.
CbReturn ==
  /\ Alive
  /\ pc[RL] = "idle"
  /\ \E i \in running :
       /\ running' = running \ {i}
       /\ IF rl.pc = "in_cb"
            THEN /\ rl' = [rl EXCEPT !.pc = "load"]
                 /\ handlerMu' = IF ver = "once" THEN handlerMu - 1 ELSE handlerMu
            ELSE UNCHANGED <<rl, handlerMu>>
  /\ UNCHANGED <<ver, libVars, connVars, writeMu, cancelled, sigVars, panic, callVars, pl,
                 handlers, arrived, invoked, logged, closeReturned>>


(***************************************************************************)
(* readLoop's deferred function                                            *)
(***************************************************************************)
\* defer: c.writeMu.Lock()
RlExitLock ==
  /\ Alive
  /\ rl.pc = "exit_lock"
  /\ writeMu = Free
  /\ writeMu' = RL
  /\ rl' = [rl EXCEPT !.pc = "exit_conn"]
  /\ UNCHANGED <<ver, libVars, connVars, cancelled, sigVars, panic, callVars, pl, handlers,
                 arrived, invoked, running, logged, handlerMu, closeReturned>>

\* defer: if c.conn != nil { _ = c.conn.Close(..., "reader_exit")
RlExitConn ==
  /\ Alive
  /\ rl.pc = "exit_conn"
  /\ IF conn # "nil"
       THEN /\ ws' = TransportClose(ws)
            /\ rl' = [rl EXCEPT !.pc = "exit_clear"]
       ELSE /\ ws' = ws
            /\ rl' = [rl EXCEPT !.pc = "exit_unlock"]
  /\ UNCHANGED <<ver, libVars, conn, writeMu, cancelled, sigVars, panic, callVars, pl,
                 handlers, arrived, invoked, running, logged, handlerMu,
                 closeReturned>>

\* Mutant of RlExitClear: the handle is left set when the loop exits.
RlExitClearSkip ==
  /\ Alive
  /\ rl.pc = "exit_clear"
  /\ rl' = [rl EXCEPT !.pc = "exit_unlock"]
  /\ UNCHANGED <<ver, libVars, connVars, writeMu, cancelled, sigVars, panic, callVars, pl,
                 handlers, arrived, invoked, running, logged, handlerMu,
                 closeReturned>>

\* defer: c.conn = nil }
RlExitClear ==
  /\ Alive
  /\ rl.pc = "exit_clear"
  /\ conn' = "nil"
  /\ rl' = [rl EXCEPT !.pc = "exit_unlock"]
  /\ UNCHANGED <<ver, libVars, ws, writeMu, cancelled, sigVars, panic, callVars, pl,
                 handlers, arrived, invoked, running, logged, handlerMu,
                 closeReturned>>

\* defer: c.writeMu.Unlock()
RlExitUnlock ==
  /\ Alive
  /\ rl.pc = "exit_unlock"
  /\ writeMu' = Free
  /\ rl' = [rl EXCEPT !.pc = "exit_signal"]
  /\ UNCHANGED <<ver, libVars, connVars, cancelled, sigVars, panic, callVars, pl, handlers,
                 arrived, invoked, running, logged, handlerMu, closeReturned>>

\* The goroutine ends: normally, or, when it was panicking, by ending the
\* process with the nil dereference.
RlEnd(pnc) ==
  IF pnc # "none" THEN pnc
  ELSE IF rl.panicking THEN "nil pointer dereference"
  ELSE "none"

\* defer: c.closeOnce.Do(func() { close(c.closedCh) })
RlExitSignal ==
  /\ Alive
  /\ ver = "once"
  /\ rl.pc = "exit_signal"
  /\ IF closeOnce
       THEN /\ UNCHANGED sigVars
            /\ panic' = RlEnd("none")
       ELSE /\ closeOnce' = TRUE
            /\ closedCh' = TRUE
            /\ closeCount' = closeCount + 1
            /\ panic' = RlEnd(IF closedCh THEN "close of closed channel" ELSE "none")
  /\ rl' = [rl EXCEPT !.pc = "exited"]
  /\ UNCHANGED <<ver, libVars, connVars, writeMu, cancelled, callVars, pl, handlers,
                 arrived, invoked, running, logged, handlerMu, closeReturned>>

\* src/client.go, defer: select { case <-c.closedCh: default: ...
RlExitSelect ==
  /\ Alive
  /\ ver = "select"
  /\ rl.pc = "exit_signal"
  /\ IF closedCh
       THEN /\ rl' = [rl EXCEPT !.pc = "exited"]
            /\ panic' = RlEnd("none")
       ELSE /\ rl' = [rl EXCEPT !.pc = "exit_chan"]
            /\ panic' = panic
  /\ UNCHANGED <<ver, libVars, connVars, writeMu, cancelled, sigVars, callVars, pl,
                 handlers, arrived, invoked, running, logged, handlerMu,
                 closeReturned>>

\* src/client.go, defer: default: close(c.closedCh) }
RlExitChan ==
  /\ Alive
  /\ ver = "select"
  /\ rl.pc = "exit_chan"
  /\ IF closedCh
       THEN /\ panic' = "close of closed channel"
            /\ UNCHANGED <<closedCh, closeCount>>
       ELSE /\ closedCh' = TRUE
            /\ closeCount' = closeCount + 1
            /\ panic' = RlEnd("none")
  /\ closeOnce' = closeOnce
  /\ rl' = [rl EXCEPT !.pc = "exited"]
  /\ UNCHANGED <<ver, libVars, connVars, writeMu, cancelled, callVars, pl, handlers,
                 arrived, invoked, running, logged, handlerMu, closeReturned>>

(***************************************************************************)
(* Client.pingLoop                                                         *)
(***************************************************************************)
\* select { case <-c.closedCh: return
PlClosed ==
  /\ Alive
  /\ pl = "select"
  /\ closedCh
  /\ pl' = "done"
  /\ UNCHANGED <<ver, libVars, connVars, writeMu, cancelled, sigVars, panic, callVars,
                 handlers, loopVars, closeReturned>>

\* case <-t.C: the 20 s ticker fires.
PlTick ==
  /\ Alive
  /\ pl = "select"
  /\ pl' = "ping_lock"
  /\ UNCHANGED <<ver, libVars, connVars, writeMu, cancelled, sigVars, panic, callVars,
                 handlers, loopVars, closeReturned>>

\* Mutant of PlLock: the keepalive loop pings without taking writeMu.
PlLockNoMutex ==
  /\ Alive
  /\ pl = "ping_lock"
  /\ pl' = "ping_check"
  /\ UNCHANGED <<ver, libVars, connVars, writeMu, cancelled, sigVars, panic, callVars,
                 handlers, loopVars, closeReturned>>

\* c.writeMu.Lock()
PlLock ==
  /\ Alive
  /\ pl = "ping_lock"
  /\ writeMu = Free
  /\ writeMu' = PL
  /\ pl' = "ping_check"
  /\ UNCHANGED <<ver, libVars, connVars, cancelled, sigVars, panic, callVars, handlers,
                 loopVars, closeReturned>>

\* if c.conn != nil { _ = c.conn.Ping(context.Background()) ...
PlCheck ==
  /\ Alive
  /\ pl = "ping_check"
  /\ IF conn # "nil"
       THEN /\ ws' = TransportUse(ws)
            /\ pl' = "pinging"
       ELSE /\ ws' = ws
            /\ pl' = "ping_unlock"
  /\ UNCHANGED <<ver, libVars, conn, writeMu, cancelled, sigVars, panic, callVars,
                 handlers, loopVars, closeReturned>>

\* Ping returns: the pong is delivered by a concurrent Read of the receive
\* loop, or the transport has failed, or the connection is closed (the
\* transport closes it when a Read fails, its context's cancellation
\* included).  context.Background() gives Ping no deadline.
PlPong ==
  /\ Alive
  /\ pl = "pinging"
  /\ (rl.pc = "read" /\ rl.h = "ws") \/ ws.broken \/ ws.closed \/ rl.err # "none"
  /\ pl' = "ping_unlock"
  /\ UNCHANGED <<ver, libVars, connVars, writeMu, cancelled, sigVars, panic, callVars,
                 handlers, loopVars, closeReturned>>

\* c.writeMu.Unlock()
PlUnlock ==
  /\ Alive
  /\ pl = "ping_unlock"
  /\ writeMu' = Free
  /\ pl' = "select"
  /\ UNCHANGED <<ver, libVars, connVars, cancelled, sigVars, panic, callVars, handlers,
                 loopVars, closeReturned>>

(***************************************************************************)
(* Client.nextEventID                                                      *)
(***************************************************************************)
\* fmt.Sprintf("evt_%d", n)
Sprintf_evt(n) == <<"evt_", n>>

\* The wall clock moves on by a nanosecond.
ClockAdvance ==
  /\ now < MaxNow
  /\ now' = now + 1
  /\ UNCHANGED <<clientVars, valVars, resVars, idpc, issued, asmVars>>

\* nextEventID: time.Now().UnixNano() is evaluated; nothing orders the
\* reading after that of another call or makes the clock move between two
\* readings.
EvNow(g) ==
  /\ idpc[g].pc = "idle"
  /\ Len(issued) + Cardinality({h \in IdCallers : idpc[h].pc = "format"}) < MaxIds
  /\ idpc' = [idpc EXCEPT ![g] = [pc |-> "format", t |-> now]]
  /\ UNCHANGED <<clientVars, valVars, resVars, now, issued, asmVars>>

\* nextEventID: id := fmt.Sprintf("evt_%d", t); payload["event_id"] = id;
\* the id is returned with the result of c.send (SendLock .. SendUnlock).
EvFormat(g) ==
  /\ idpc[g].pc = "format"
  /\ issued' = Append(issued, Sprintf_evt(idpc[g].t))
  /\ idpc' = [idpc EXCEPT ![g] = [pc |-> "idle", t |-> 0]]
  /\ UNCHANGED <<clientVars, valVars, resVars, now, asmVars>>

(***************************************************************************)
(* TextAssembler and AudioAssembler                                        *)
(***************************************************************************)
\* A Go map[string][]byte is a function on the set of its keys.  m[k] of a
\* missing key is the nil slice, delete(m, k) of a missing key does nothing.
Lookup(m, k) == IF k \in DOMAIN m THEN m[k] ELSE <<>>
Delete(m, k) == [x \in DOMAIN m \ {k} |-> m[x]]
Store(m, k, v) == [x \in DOMAIN m \cup {k} |-> IF x = k THEN v ELSE m[x]]

\* A Go string is a sequence of characters, a []byte a sequence of numbers.
Code == [c \in {"a", "b", "z"} |-> IF c = "a" THEN 97 ELSE IF c = "b" THEN 98 ELSE 122]
\* []byte(s)
Bytes(str) == [i \in 1..Len(str) |-> Code[str[i]]]
\* string(b)
String(b) == [i \in 1..Len(b) |-> CHOOSE c \in DOMAIN Code : Code[c] = b[i]]

\* The alphabet of base64.StdEncoding.
B64Alphabet ==
  <<"A", "B", "C", "D", "E", "F", "G", "H", "I", "J", "K", "L", "M", "N", "O", "P",
    "Q", "R", "S", "T", "U", "V", "W", "X", "Y", "Z", "a", "b", "c", "d", "e", "f",
    "g", "h", "i", "j", "k", "l", "m", "n", "o", "p", "q", "r", "s", "t", "u", "v",
    "w", "x", "y", "z", "0", "1", "2", "3", "4", "5", "6", "7", "8", "9", "+", "/">>
B64Valid(c) == \E i \in 1..Len(B64Alphabet) : B64Alphabet[i] = c
B64Index(c) == (CHOOSE i \in 1..Len(B64Alphabet) : B64Alphabet[i] = c) - 1

\* base64.StdEncoding.DecodeString: groups of four characters give three
\* bytes; the last group may end in "=" (two bytes) or "==" (one byte);
\* anything else is a CorruptInputError.
RECURSIVE DecodeString(_)
DecodeString(str) ==
  IF str = <<>> THEN [ok |-> TRUE, bytes |-> <<>>]
  ELSE IF Len(str) < 4 \/ ~B64Valid(str[1]) \/ ~B64Valid(str[2])
    THEN [ok |-> FALSE, bytes |-> <<>>]
  ELSE
    LET i1 == B64Index(str[1])
        i2 == B64Index(str[2])
        rest == SubSeq(str, 5, Len(str))
    IN IF str[3] = "=" /\ str[4] = "="
         THEN IF rest = <<>>
                THEN [ok |-> TRUE, bytes |-> <<i1 * 4 + i2 \div 16>>]
                ELSE [ok |-> FALSE, bytes |-> <<>>]
       ELSE IF ~B64Valid(str[3]) THEN [ok |-> FALSE, bytes |-> <<>>]
       ELSE IF str[4] = "="
         THEN IF rest = <<>>
                THEN [ok |-> TRUE,
                      bytes |-> <<i1 * 4 + i2 \div 16,
                                  (i2 % 16) * 16 + B64Index(str[3]) \div 4>>]
                ELSE [ok |-> FALSE, bytes |-> <<>>]
       ELSE IF ~B64Valid(str[4]) THEN [ok |-> FALSE, bytes |-> <<>>]
       ELSE
         LET tail == DecodeString(rest)
         IN IF tail.ok
              THEN [ok |-> TRUE,
                    bytes |-> <<i1 * 4 + i2 \div 16,
                                (i2 % 16) * 16 + B64Index(str[3]) \div 4,
                                (B64Index(str[3]) % 4) * 64 + B64Index(str[4])>>
                              \o tail.bytes]
              ELSE [ok |-> FALSE, bytes |-> <<>>]

\* Text deltas and final texts the peer sends.
TextDeltas == {<<>>, <<"a">>, <<"b">>}
FinalTexts == {<<>>, <<"z">>}

\* Audio deltas the peer sends: the bytes it encoded and the base64 text on
\* the wire; the last two are not base64.
AudioDeltas ==
  {[raw |-> <<>>, b64 |-> <<>>],
   [raw |-> <<1>>, b64 |-> <<"A", "Q", "=", "=">>],
   [raw |-> <<1, 2>>, b64 |-> <<"A", "Q", "I", "=">>],
   [raw |-> <<1, 2, 3>>, b64 |-> <<"A", "Q", "I", "D">>],
   [raw |-> <<>>, b64 |-> <<"A", "?", "=", "=">>],
   [raw |-> <<>>, b64 |-> <<"A">>]}

\* Mutant of TextOnDelta: the delta replaces the buffer.
TextOnDeltaReplace(data, e) ==
  Store(data, e.ResponseID, Bytes(e.Delta))

\* t.data[e.ResponseID] = append(t.data[e.ResponseID], []byte(e.Delta)...)
TextOnDelta(data, e) ==
  Store(data, e.ResponseID, Lookup(data, e.ResponseID) \o Bytes(e.Delta))

\* Mutant of TextOnDone: the final text does not remove the buffer.
TextOnDoneKeepsBuffer(data, e) ==
  IF e.Text # <<>>
    THEN [data |-> data, ret |-> e.Text]
    ELSE [data |-> Delete(data, e.ResponseID),
          ret |-> String(Lookup(data, e.ResponseID))]

\* TextAssembler.OnDone: the final text if there is one, else the buffer; the
\* key is deleted either way.
TextOnDone(data, e) ==
  IF e.Text # <<>>
    THEN [data |-> Delete(data, e.ResponseID), ret |-> e.Text]
    ELSE [data |-> Delete(data, e.ResponseID),
          ret |-> String(Lookup(data, e.ResponseID))]

\* Mutant of AudioOnDelta: the key is created before the delta is decoded.
AudioOnDeltaKeyFirst(data, e) ==
  LET d == DecodeString(e.DeltaBase64)
  IN IF ~d.ok
       THEN [data |-> Store(data, e.ResponseID, Lookup(data, e.ResponseID)),
             err |-> "CorruptInputError"]
       ELSE [data |-> Store(data, e.ResponseID,
                            Lookup(data, e.ResponseID) \o d.bytes),
             err |-> "nil"]

\* Mutant of AudioOnDelta: a delta that fails to decode discards the key's
\* buffer.
AudioOnDeltaDropsBuffer(data, e) ==
  LET d == DecodeString(e.DeltaBase64)
  IN IF ~d.ok
       THEN [data |-> Delete(data, e.ResponseID), err |-> "CorruptInputError"]
       ELSE [data |-> Store(data, e.ResponseID,
                            Lookup(data, e.ResponseID) \o d.bytes),
             err |-> "nil"]

\* AudioAssembler.OnDelta: b, err := DecodeString(e.DeltaBase64); if err !=
\* nil { return err }; a.data[id] = append(a.data[id], b...); return nil
AudioOnDelta(data, e) ==
  LET d == DecodeString(e.DeltaBase64)
  IN IF ~d.ok
       THEN [data |-> data, err |-> "CorruptInputError"]
       ELSE [data |-> Store(data, e.ResponseID,
                            Lookup(data, e.ResponseID) \o d.bytes),
             err |-> "nil"]

\* AudioAssembler.OnDone: buf := a.data[id]; delete(a.data, id); return buf
AudioOnDone(data, id) ==
  [data |-> Delete(data, id), ret |-> Lookup(data, id)]

\* The application's ResponseTextDelta callback calls TextAssembler.OnDelta.
AsmTextOnDelta(k, d) ==
  /\ ops < MaxOps
  /\ textData' = TextOnDelta(textData, [ResponseID |-> k, Delta |-> d])
  /\ acc' = [acc EXCEPT !.text[k] = Append(@, d)]
  /\ prev' = last
  /\ last' = Op("text", "OnDelta", k, <<>>, <<>>, "nil")
  /\ ops' = ops + 1
  /\ UNCHANGED <<clientVars, valVars, resVars, idVars, audioData>>

\* The application's ResponseTextDone callback calls TextAssembler.OnDone.
AsmTextOnDone(k, t) ==
  /\ ops < MaxOps
  /\ LET r == TextOnDone(textData, [ResponseID |-> k, Text |-> t])
     IN /\ textData' = r.data
        /\ last' = Op("text", "OnDone", k, t, r.ret, "nil")
  /\ acc' = [acc EXCEPT !.text[k] = <<>>]
  /\ prev' = last
  /\ ops' = ops + 1
  /\ UNCHANGED <<clientVars, valVars, resVars, idVars, audioData>>

\* The application's ResponseAudioDelta callback calls AudioAssembler.OnDelta.
AsmAudioOnDelta(k, c) ==
  /\ ops < MaxOps
  /\ LET r == AudioOnDelta(audioData, [ResponseID |-> k, DeltaBase64 |-> c.b64])
     IN /\ audioData' = r.data
        /\ last' = Op("audio", "OnDelta", k, <<>>, <<>>, r.err)
        /\ acc' = IF r.err = "nil"
                    THEN [acc EXCEPT !.audio[k] = Append(@, c.raw)]
                    ELSE acc
  /\ prev' = last
  /\ ops' = ops + 1
  /\ UNCHANGED <<clientVars, valVars, resVars, idVars, textData>>

\* The application's ResponseAudioDone callback calls AudioAssembler.OnDone.
AsmAudioOnDone(k) ==
  /\ ops < MaxOps
  /\ LET r == AudioOnDone(audioData, k)
     IN /\ audioData' = r.data
        /\ last' = Op("audio", "OnDone", k, <<>>, r.ret, "nil")
  /\ acc' = [acc EXCEPT !.audio[k] = <<>>]
  /\ prev' = last
  /\ ops' = ops + 1
  /\ UNCHANGED <<clientVars, valVars, resVars, idVars, textData>>

(***************************************************************************)
(* WithRetry, calculateDelay, the default retry policy                     *)
(***************************************************************************)
\* The dynamic type of an error value.
ErrorType(e) ==
  IF e = "ConfigError" THEN "*ConfigError"
  ELSE IF e = "ConnectionError(dial)" THEN "*ConnectionError"
  ELSE IF e \in SendErrors THEN "*SendError"
  ELSE "*errors.errorString"

\* errorAs(err, &target): a type assertion on err itself, no unwrapping.
errorAs(e, target) == ErrorType(e) = target

\* Mutant of DefaultRetryableErrors: every error is retryable.
DefaultRetryableErrorsAll(e) == TRUE

\* The predicate of DefaultRetryConfig.
DefaultRetryableErrors(e) ==
  IF errorAs(e, "*ConfigError") THEN FALSE
  ELSE errorAs(e, "*ConnectionError") \/ errorAs(e, "*SendError")

\* config.RetryableErrors(err) for the predicates tried: the default one, one
\* that retries everything, one that retries nothing.
RetryableErrors(f, e) ==
  IF f = "default" THEN DefaultRetryableErrors(e)
  ELSE IF f = "all" THEN TRUE
  ELSE FALSE

\* DefaultRetryConfig(): durations in milliseconds, Jitter in percent.
DefaultRetryConfig ==
  [MaxRetries |-> 3, BaseDelay |-> 1000, MaxDelay |-> 30000, Multiplier |-> 2,
   Jitter |-> 10, RetryableErrors |-> "default"]

\* math.Pow(m, k) for a whole multiplier.
RECURSIVE Pow(_, _)
Pow(m, k) == IF k = 0 THEN 1 ELSE m * Pow(m, k - 1)

\* calculateDelay: the exponential delay, capped at MaxDelay, then the jitter
\* term (2.0*jitterAmount) - jitterAmount added; time.Duration() truncates.
calculateDelay(attempt, config) ==
  LET raw == config.BaseDelay * Pow(config.Multiplier, attempt)
      delay == IF raw > config.MaxDelay THEN config.MaxDelay ELSE raw
  IN IF config.Jitter > 0
       THEN (100 * delay + 2 * (delay * config.Jitter) - delay * config.Jitter) \div 100
       ELSE delay

\* Configurations WithRetry is called with.
RetryConfigs ==
  {DefaultRetryConfig}
    \cup [MaxRetries : (0 - 1)..MaxN, BaseDelay : {0, 1}, MaxDelay : {2},
          Multiplier : {2}, Jitter : {0}, RetryableErrors : {"nil", "all", "none"}]

\* Operations given to WithRetry: a function that may return anything, the
\* closures of WithRetryableClient.SessionUpdate, CreateResponse and
\* AppendPCM16, and the closure of DialWithRetry.
RetryOps ==
  {[kind |-> "func", m |-> "", valid |-> TRUE, len |-> 0]}
    \cup [kind : {"client"}, m : {"SessionUpdate", "CreateResponse"},
          valid : BOOLEAN, len : {0}]
    \cup [kind : {"client"}, m : {"AppendPCM16"}, valid : {TRUE},
          len : {1, 2, maxChunkSize + 2}]
    \cup [kind : {"Dial"}, m : {""}, valid : BOOLEAN, len : {0}]

\* What one invocation of the operation may return.
OpResults(op) ==
  IF op.kind = "func"
    THEN {"nil", "errors.New(failure)", "ConnectionError(dial)",
          "SendError(ErrSendTimeout)", "ConfigError"}
  ELSE IF op.kind = "Dial"
    THEN IF op.valid THEN {"nil", "ConnectionError(dial)"} ELSE {"ConfigError"}
  ELSE
    LET pre == Precheck(op.m, [ctxNil |-> FALSE, valid |-> op.valid,
                               marshals |-> TRUE, len |-> op.len])
    IN IF pre # "send" THEN {pre}
       ELSE {"nil", "ErrClosed", "SendError(write)", "SendError(ErrSendTimeout)"}

\* The caller's context is cancelled; a WithRetry blocked in its select is
\* woken by ctx.Done().
Cancel ==
  /\ ~ctxDone
  /\ ctxDone' = TRUE
  /\ rt' = IF rt.pc = "wait" THEN [rt EXCEPT !.pc = "woken", !.hit = TRUE] ELSE rt
  /\ UNCHANGED <<clientVars, valVars, idVars, asmVars, delayVars, breakerVars>>

\* WithRetry(ctx, config, op): var lastErr error; attempt := 0
RetryCall(config, op) ==
  /\ rt.pc = "idle"
  /\ rt' = [rt EXCEPT !.pc = "loop", !.config = config, !.op = op]
  /\ UNCHANGED <<clientVars, valVars, idVars, asmVars, ctxDone, delayVars, breakerVars>>

\* Mutant of RetryLoop: the loop makes MaxRetries attempts.
RetryLoopOneLess ==
  /\ rt.pc = "loop"
  /\ rt' = [rt EXCEPT !.pc = IF rt.attempt < rt.config.MaxRetries
                                THEN "invoke" ELSE "failed"]
  /\ UNCHANGED <<clientVars, valVars, idVars, asmVars, ctxDone, delayVars, breakerVars>>

\* for ...; attempt <= config.MaxRetries; ...
RetryLoop ==
  /\ rt.pc = "loop"
  /\ rt' = [rt EXCEPT !.pc = IF rt.attempt <= rt.config.MaxRetries
                                THEN "invoke" ELSE "failed"]
  /\ UNCHANGED <<clientVars, valVars, idVars, asmVars, ctxDone, delayVars, breakerVars>>

\* err := op()
RetryInvoke(r) ==
  /\ rt.pc = "invoke"
  /\ r \in OpResults(rt.op)
  /\ rt' = [rt EXCEPT !.pc = "check", !.err = r, !.calls = @ + 1]
  /\ UNCHANGED <<clientVars, valVars, idVars, asmVars, ctxDone, delayVars, breakerVars>>

\* Mutant of RetryCheck: the predicate is consulted after the backoff wait
\* has been set up, so every failure is followed by a delay.
RetryCheckIgnoresPredicate ==
  /\ rt.pc = "check"
  /\ rt' = IF rt.err = "nil"
             THEN [rt EXCEPT !.pc = "returned", !.ret = <<"nil">>]
           ELSE IF rt.attempt = rt.config.MaxRetries
             THEN [rt EXCEPT !.pc = "failed", !.lastErr = rt.err]
           ELSE [rt EXCEPT !.pc = "select", !.lastErr = rt.err,
                           !.delay = calculateDelay(rt.attempt, rt.config)]
  /\ UNCHANGED <<clientVars, valVars, idVars, asmVars, ctxDone, delayVars, breakerVars>>

\* if err == nil { return nil }; lastErr = err; the predicate; the break on
\* the last attempt; delay := calculateDelay(attempt, config)
RetryCheck ==
  /\ rt.pc = "check"
  /\ rt' = IF rt.err = "nil"
             THEN [rt EXCEPT !.pc = "returned", !.ret = <<"nil">>]
           ELSE IF rt.config.RetryableErrors # "nil"
                   /\ ~RetryableErrors(rt.config.RetryableErrors, rt.err)
             THEN [rt EXCEPT !.pc = "returned", !.lastErr = rt.err,
                             !.ret = <<"non-retryable error", rt.err>>]
           ELSE IF rt.attempt = rt.config.MaxRetries
             THEN [rt EXCEPT !.pc = "failed", !.lastErr = rt.err]
           ELSE [rt EXCEPT !.pc = "select", !.lastErr = rt.err,
                           !.delay = calculateDelay(rt.attempt, rt.config)]
  /\ UNCHANGED <<clientVars, valVars, idVars, asmVars, ctxDone, delayVars, breakerVars>>

\* select { case <-ctx.Done(): ...; case <-time.After(delay): } is entered: a
\* context already cancelled is a ready case; the timer is ready at once only
\* for a zero delay, and of two ready cases either may be chosen; with no
\* ready case the goroutine blocks.
RetrySelect ==
  /\ rt.pc = "select"
  /\ \/ /\ ctxDone
        /\ rt' = [rt EXCEPT !.pc = "woken"]
     \/ /\ ctxDone /\ rt.delay = 0
        /\ rt' = [rt EXCEPT !.pc = "loop", !.attempt = @ + 1, !.waits = @ + 1,
                            !.slept = @ + 1]
     \/ /\ ~ctxDone
        /\ rt' = [rt EXCEPT !.pc = "wait", !.waits = @ + 1]
  /\ UNCHANGED <<clientVars, valVars, idVars, asmVars, ctxDone, delayVars, breakerVars>>

\* Mutant of RetryTimer: the timer's case also wins once ctx.Done() has woken
\* the select.
RetryTimerAfterCancel ==
  /\ rt.pc \in {"wait", "woken"}
  /\ rt' = [rt EXCEPT !.pc = "loop", !.attempt = @ + 1, !.slept = @ + 1]
  /\ UNCHANGED <<clientVars, valVars, idVars, asmVars, ctxDone, delayVars, breakerVars>>

\* case <-time.After(delay): the delay has elapsed; attempt++
RetryTimer ==
  /\ rt.pc = "wait"
  /\ rt' = [rt EXCEPT !.pc = "loop", !.attempt = @ + 1, !.slept = @ + 1]
  /\ UNCHANGED <<clientVars, valVars, idVars, asmVars, ctxDone, delayVars, breakerVars>>

\* case <-ctx.Done(): return fmt.Errorf("retry cancelled: %w", ctx.Err())
RetryCancelled ==
  /\ rt.pc = "woken"
  /\ rt' = [rt EXCEPT !.pc = "returned",
                      !.ret = <<"retry cancelled", "context canceled">>]
  /\ UNCHANGED <<clientVars, valVars, idVars, asmVars, ctxDone, delayVars, breakerVars>>

\* return fmt.Errorf("operation failed after %d attempts: %w", ...)
RetryFailed ==
  /\ rt.pc = "failed"
  /\ rt' = [rt EXCEPT !.pc = "returned",
                      !.ret = <<"operation failed after attempts",
                                rt.config.MaxRetries + 1, rt.lastErr>>]
  /\ UNCHANGED <<clientVars, valVars, idVars, asmVars, ctxDone, delayVars, breakerVars>>

\* calculateDelay is called for an attempt and a configuration.
DelayCall(attempt, config) ==
  /\ dl' = [called |-> TRUE, attempt |-> attempt, config |-> config,
            out |-> calculateDelay(attempt, config)]
  /\ UNCHANGED <<clientVars, valVars, idVars, asmVars, retryVars, breakerVars>>

\* Configurations calculateDelay is called with.
DelayConfigs ==
  {DefaultRetryConfig}
    \cup [MaxRetries : {0}, BaseDelay : {0, 1, 3}, MaxDelay : {0, 2, 10},
          Multiplier : {1, 2, 3}, Jitter : {0, 10, 100},
          RetryableErrors : {"nil"}]

(***************************************************************************)
(* CircuitBreaker                                                          *)
(***************************************************************************)
\* Configurations of the breaker; RecoveryTimeout in clock units.
CircuitBreakerConfigs ==
  [FailureThreshold : 1..MaxThreshold, RecoveryTimeout : {1, 2},
   SuccessThreshold : 1..MaxThreshold]

\* time.Since(t) at clock reading n; the zero time.Time is long ago.
Since(t, n) == IF t.zero THEN n + 1000000 ELSE n - t.at

\* shouldAllow: the (possibly changed) breaker and whether the operation may
\* run.
shouldAllowOpenProbes(b, config, n) ==
  IF b.state = "Closed" THEN [cb |-> b, allow |-> TRUE]
  ELSE IF b.state = "Open"
    THEN [cb |-> [b EXCEPT !.state = "HalfOpen"], allow |-> TRUE]
  ELSE [cb |-> b, allow |-> TRUE]

shouldAllow(b, config, n) ==
  IF b.state = "Closed" THEN [cb |-> b, allow |-> TRUE]
  ELSE IF b.state = "Open"
    THEN IF Since(b.lastFailureTime, n) >= config.RecoveryTimeout
           THEN [cb |-> [b EXCEPT !.state = "HalfOpen"], allow |-> TRUE]
           ELSE [cb |-> b, allow |-> FALSE]
  ELSE [cb |-> b, allow |-> TRUE]

\* Mutant of onFailure: the breaker opens when failures has passed the
\* threshold.
onFailureOpensLate(b, config, n) ==
  LET c == [b EXCEPT !.failures = @ + 1, !.successes = 0,
                     !.lastFailureTime = [zero |-> FALSE, at |-> n]]
  IN IF c.failures > config.FailureThreshold
       THEN [c EXCEPT !.state = "Open"]
       ELSE c

\* onFailure: failures++; successes = 0; lastFailureTime = time.Now(); Open
\* when failures has reached the threshold.
onFailure(b, config, n) ==
  LET c == [b EXCEPT !.failures = @ + 1, !.successes = 0,
                     !.lastFailureTime = [zero |-> FALSE, at |-> n]]
  IN IF c.failures >= config.FailureThreshold
       THEN [c EXCEPT !.state = "Open"]
       ELSE c

onSuccessKeepsFailures(b, config) ==
  LET c == [b EXCEPT !.successes = @ + 1]
  IN IF c.state = "HalfOpen" /\ c.successes >= config.SuccessThreshold
       THEN [c EXCEPT !.state = "Closed"]
       ELSE c

onSuccessClosesAtOnce(b, config) ==
  LET c == [b EXCEPT !.successes = @ + 1, !.failures = 0]
  IN IF c.state = "HalfOpen"
       THEN [c EXCEPT !.state = "Closed"]
       ELSE c

\* onSuccess: successes++; failures = 0; Closed when Half-Open and successes
\* has reached the threshold.
onSuccess(b, config) ==
  LET c == [b EXCEPT !.successes = @ + 1, !.failures = 0]
  IN IF c.state = "HalfOpen" /\ c.successes >= config.SuccessThreshold
       THEN [c EXCEPT !.state = "Closed"]
       ELSE c

\* Execute(op) with an operation that returns r: the breaker afterwards, the
\* state shouldAllow left, whether op ran, and the value returned.
Execute(b, config, n, r) ==
  LET a == shouldAllow(b, config, n)
  IN IF ~a.allow
       THEN [cb |-> a.cb, allowedAs |-> a.cb.state, invoked |-> FALSE,
             ret |-> "circuit breaker is open"]
     ELSE IF r # "nil"
       THEN [cb |-> onFailure(a.cb, config, n), allowedAs |-> a.cb.state,
             invoked |-> TRUE, ret |-> r]
     ELSE [cb |-> onSuccess(a.cb, config), allowedAs |-> a.cb.state,
           invoked |-> TRUE, ret |-> "nil"]

\* NewCircuitBreaker(config)
NewCircuitBreaker(config) ==
  /\ cb.state = "none"
  /\ cbcfg' = config
  /\ cb' = [state |-> "Closed", failures |-> 0, successes |-> 0,
            lastFailureTime |-> [zero |-> TRUE, at |-> 0]]
  /\ UNCHANGED <<clientVars, valVars, idVars, asmVars, retryVars, delayVars, lastExec,
                 streak, hsucc, execs>>

\* cb.Execute(op), op returning r.  streak counts the consecutive failed
\* operations, hsucc the consecutive successes since the breaker went
\* Half-Open.
BreakerExecute(r) ==
  /\ cb.state # "none"
  /\ execs < MaxExec
  /\ LET e == Execute(cb, cbcfg, now, r)
     IN /\ cb' = e.cb
        /\ lastExec' = [before |-> cb, allowedAs |-> e.allowedAs,
                        invoked |-> e.invoked, ret |-> e.ret, at |-> now]
        /\ streak' = IF ~e.invoked THEN streak
                     ELSE IF r = "nil" THEN 0 ELSE streak + 1
        /\ hsucc' = IF ~e.invoked THEN hsucc
                    ELSE IF r # "nil" \/ e.allowedAs # "HalfOpen" THEN 0
                    ELSE IF cb.state = "Open" THEN 1 ELSE hsucc + 1
  /\ execs' = execs + 1
  /\ UNCHANGED <<clientVars, valVars, idVars, asmVars, retryVars, delayVars, cbcfg>>

(***************************************************************************)
(* ValidateSession                                                         *)
(***************************************************************************)
\* A pointer field: nil, or a pointer to one of the values of S.
Ptr(S, zero) == {[set |-> FALSE, v |-> zero]} \cup [set : {TRUE}, v : S]

\* float64 values tried for Threshold, in thousandths, and NaN.
Floats ==
  [nan : {FALSE}, v : {0 - 1, 0, 500, 1000, 1001}] \cup {[nan |-> TRUE, v |-> 0]}

\* x < y and x > y on float64: every comparison with NaN is false.
FloatLess(x, y) == ~x.nan /\ x.v < y
FloatGreater(x, y) == ~x.nan /\ x.v > y

\* Strings tried for Instructions, by their number of characters and their
\* number of bytes in UTF-8; len(s) is the number of bytes.
InstructionStrings ==
  {[chars |-> 0, bytes |-> 0], [chars |-> 10000, bytes |-> 10000],
   [chars |-> 10001, bytes |-> 10001], [chars |-> 5001, bytes |-> 10002]}

len(s) == s.bytes

validVoices == {"alloy", "echo", "fable", "onyx", "nova", "shimmer", "verse"}
validFormats == {"pcm16", "g711_ulaw", "g711_alaw"}
validTypes == {"server_vad", "semantic_vad"}
validEagerness == {"low", "medium", "high", "auto"}

\* The TurnDetection values tried.
TurnDetections ==
  [Type : {"", "server_vad", "semantic_vad", "client_vad"},
   Threshold : Floats, PrefixPaddingMS : {0 - 1, 0, 300},
   SilenceDurationMS : {0 - 1, 200}, Eagerness : {"", "low", "auto", "eager"}]

\* The Session values tried.
Sessions ==
  [Voice : Ptr({"alloy", "verse", "robot"}, ""),
   InputAudioFormat : Ptr({"pcm16", "mp3"}, ""),
   OutputAudioFormat : Ptr({"g711_alaw", "wav"}, ""),
   TurnDetection : Ptr(TurnDetections, NoTurnDetection),
   Instructions : Ptr(InstructionStrings, [chars |-> 0, bytes |-> 0])]

\* The turn-detection part of ValidateSession.
ValidateTurnDetection(td) ==
  IF td.Type = "" THEN "turn detection type cannot be empty"
  ELSE IF td.Type \notin validTypes THEN "invalid turn detection type"
  ELSE IF td.Type = "server_vad"
          /\ (FloatLess(td.Threshold, 0) \/ FloatGreater(td.Threshold, 1000))
    THEN "turn detection threshold must be between 0.0 and 1.0"
  ELSE IF td.Type = "server_vad" /\ td.PrefixPaddingMS < 0
    THEN "prefix padding must be non-negative"
  ELSE IF td.Type = "server_vad" /\ td.SilenceDurationMS < 0
    THEN "silence duration must be non-negative"
  ELSE IF td.Type = "semantic_vad" /\ td.Eagerness # ""
          /\ td.Eagerness \notin validEagerness
    THEN "invalid eagerness"
  ELSE "nil"

\* ValidateSession(s): the first failing test's error, or nil.
ValidateSession(s) ==
  IF s.Voice.set /\ s.Voice.v \notin validVoices THEN "invalid voice"
  ELSE IF s.InputAudioFormat.set /\ s.InputAudioFormat.v \notin validFormats
    THEN "invalid input audio format"
  ELSE IF s.OutputAudioFormat.set /\ s.OutputAudioFormat.v \notin validFormats
    THEN "invalid output audio format"
  ELSE IF s.TurnDetection.set /\ ValidateTurnDetection(s.TurnDetection.v) # "nil"
    THEN ValidateTurnDetection(s.TurnDetection.v)
  ELSE IF s.Instructions.set /\ len(s.Instructions.v) > 10000
    THEN "instructions too long"
  ELSE "nil"

\* ValidateSession is called with s.
ValidateSessionCall(s) ==
  /\ vs' = [called |-> TRUE, s |-> s, err |-> ValidateSession(s)]
  /\ UNCHANGED <<clientVars, idVars, asmVars, resVars>>

(***************************************************************************)
(* Specifications                                                          *)
(***************************************************************************)
\* Steps common to both revisions that take no input.
Common ==
  \/ TransportFail
  \/ \E p \in Threads : CloseCall(p)
  \/ \E p \in Threads : CloseLock(p)
  \/ \E p \in Threads : CloseConn(p)
  \/ \E p \in Threads : CloseClear(p)
  \/ \E p \in Threads : CloseUnlock(p)
  \/ \E p \in Threads : Return(p)
  \/ RlLoad
  \/ RlReadNil
  \/ RlReadErr
  \/ RlDecode
  \/ RlDispatch
  \/ CbReturn
  \/ RlExitLock
  \/ RlExitConn
  \/ RlExitClear
  \/ RlExitUnlock

\* The send path and the keepalive loop.
Senders ==
  \/ \E p \in Threads : \E m \in SendMethods : \E a \in Args(m) : SendCall(p, m, a)
  \/ \E p \in Threads : SendLock(p)
  \/ \E p \in Threads : SendCheck(p)
  \/ \E p \in Threads : SendWrite(p)
  \/ \E p \in Threads : SendUnlock(p)
  \/ PlClosed
  \/ PlTick
  \/ PlLock
  \/ PlCheck
  \/ PlPong
  \/ PlUnlock

\* The signalling steps of each revision.
SignalOnce ==
  \/ \E p \in Threads : CloseSignal(p)
  \/ RlExitSignal

SignalSelect ==
  \/ \E p \in Threads : CloseSelect(p)
  \/ \E p \in Threads : CloseChan(p)
  \/ RlExitSelect
  \/ RlExitChan

\* The connection lifecycle: every goroutine of the client; the peer sends
\* "error" events and callers register OnError.
Next ==
  \/ Common
  \/ Senders
  \/ SignalOnce
  \/ RlReadMsg(TextMsg(TagError))
  \/ \E p \in Callers : OnHandler(p, TagError, "f1")
  \/ \E p \in Callers : OnHandlerSet(p)

NextSelect ==
  \/ Common
  \/ Senders
  \/ SignalSelect
  \/ RlReadMsg(TextMsg(TagError))
  \/ \E p \in Callers : OnHandler(p, TagError, "f1")
  \/ \E p \in Callers : OnHandlerSet(p)

\* Dispatch: the receive loop against every kind of message and every
\* registration, with Close and transport failure as the ways it ends.
NextDispatch ==
  \/ Common
  \/ SignalOnce
  \/ \E m \in Msgs : RlReadMsg(m)
  \/ \E p \in Threads : \E t \in KnownTags(ver) : \E f \in HandlerIds : OnHandler(p, t, f)
  \/ \E p \in Threads : OnHandlerSet(p)

\* Dispatch of messages whose payload may not decode into the event of
\* their tag.
NextPayload ==
  \/ Common
  \/ SignalOnce
  \/ \E t \in {TagError, TagResponseDone} :
       \E m \in {TextMsg(t), BadShapeMsg(t)} : RlReadMsg(m)
  \/ \E p \in Callers : \E t \in KnownTags(ver) : OnHandler(p, t, "f1")
  \/ \E p \in Callers : OnHandlerSet(p)

\* Shutdown: Close, callbacks that send, the keepalive loop and the peer.
NextShutdown ==
  \/ Common
  \/ SignalOnce
  \/ \E p \in Threads :
       SendCall(p, "InputCommit", [ctxNil |-> FALSE, valid |-> TRUE,
                                  marshals |-> TRUE, len |-> 0])
  \/ \E p \in Threads : SendLock(p)
  \/ \E p \in Threads : SendCheck(p)
  \/ \E p \in Threads : SendWrite(p)
  \/ \E p \in Threads : SendUnlock(p)
  \/ PlClosed
  \/ PlTick
  \/ PlLock
  \/ PlCheck
  \/ PlPong
  \/ PlUnlock
  \/ RlReadMsg(TextMsg(TagError))
  \/ \E p \in Callers : OnHandler(p, TagError, "f1")
  \/ \E p \in Callers : OnHandlerSet(p)

\* The client with sync.Once and handlerMu.
Spec == Init /\ [][Next]_vars

\* The client of src/client.go.
SpecSelect == InitSelect /\ [][NextSelect]_vars

\* Event ids: two goroutines in nextEventID and the clock.
NextEventID ==
  \/ ClockAdvance
  \/ \E g \in IdCallers : EvNow(g)
  \/ \E g \in IdCallers : EvFormat(g)

\* The assemblers under every interleaving of calls and keys.
NextAssembler ==
  \/ \E k \in Keys : \E d \in TextDeltas : AsmTextOnDelta(k, d)
  \/ \E k \in Keys : \E t \in FinalTexts : AsmTextOnDone(k, t)
  \/ \E k \in Keys : \E c \in AudioDeltas : AsmAudioOnDelta(k, c)
  \/ \E k \in Keys : AsmAudioOnDone(k)

\* The receive loop and dispatch of the sync.Once revision.
SpecDispatch == Init /\ [][NextDispatch]_vars

\* WithRetry under every configuration, operation and cancellation.
NextRetry ==
  \/ Cancel
  \/ \E config \in RetryConfigs : \E op \in RetryOps : RetryCall(config, op)
  \/ RetryLoop
  \/ \E r \in SendErrors \cup {"nil", "errors.New(failure)", "ErrClosed",
                                 "ConnectionError(dial)", "ConfigError"} :
       RetryInvoke(r)
  \/ RetryCheck
  \/ RetrySelect
  \/ RetryTimer
  \/ RetryCancelled
  \/ RetryFailed

\* calculateDelay on every attempt index and configuration.
NextDelay ==
  \E attempt \in 0..MaxAttempt : \E config \in DelayConfigs :
    DelayCall(attempt, config)

\* The circuit breaker, used by one goroutine, and the clock.
NextBreaker ==
  \/ ClockAdvance
  \/ \E config \in CircuitBreakerConfigs : NewCircuitBreaker(config)
  \/ \E r \in {"nil", "errors.New(failure)"} : BreakerExecute(r)

\* One call of ValidateSession, on every session tried.
NextValidate == ~vs.called /\ \E s \in Sessions : ValidateSessionCall(s)

\* Client.nextEventID.
SpecEventID == Init /\ [][NextEventID]_vars

\* TextAssembler and AudioAssembler.
SpecAssembler == Init /\ [][NextAssembler]_vars


(***************************************************************************)
(* Claims                                                                  *)
(***************************************************************************)
Returned(p) == pc[p] = "returned"
SendReturned(p) == Returned(p) /\ call[p].kind = "send"

\* What a send-path method returns without reaching c.send.
PrecheckResults ==
  {"SendError(context cannot be nil)", "SendError(validation)", "nil",
   "SendError(PCM16 data must have even number of bytes)",
   "SendError(PCM data too large)"}

\* C1: however Close is interleaved with itself and with the receive loop's
\* exit, closing closedCh never panics and closedCh is closed at most once.
\* (Runs in which the loop has hit the nil handle of C3 are left aside.)
C1_ClosedChClosedOnce ==
  \/ rl.panicking
  \/ /\ panic # "close of closed channel"
     /\ closeCount <= 1

\* C2 as stated: every send-path call begun after a Close() has returned
\* yields ErrClosed and writes nothing.
C2_AnySendAfterCloseIsErrClosed ==
  \A p \in Threads :
    SendReturned(p) /\ call[p].afterClose =>
      ret[p] = "ErrClosed" /\ ~call[p].wrote

\* C2 amended: a send-path call begun after a Close() has returned writes
\* nothing; it yields ErrClosed when it reaches c.send, and otherwise the
\* result of its own check of the context and payload.
C2_SendAfterClose ==
  \A p \in Threads :
    SendReturned(p) /\ call[p].afterClose =>
      /\ ~call[p].wrote
      /\ call[p].toSend => ret[p] = "ErrClosed"
      /\ ~call[p].toSend => ret[p] \in PrecheckResults

C2_Witness ==
  \E p \in Threads :
    SendReturned(p) /\ call[p].afterClose /\ call[p].toSend /\ ret[p] = "ErrClosed"

\* C3: the receive loop never calls Read through a handle that Close has
\* cleared to nil.
C3_NoReadThroughNilHandle ==
  /\ ~rl.panicking
  /\ panic # "nil pointer dereference"

\* C4: no Write, Ping or Close is issued on the transport once it has been
\* closed, and outside the critical sections a closed transport is never
\* reachable through c.conn.
C4_NoUseAfterClose ==
  /\ ~ws.misuse
  /\ ws.closes <= 1
  /\ (ws.closed /\ writeMu = Free) => conn = "nil"

\* A send that began before Close returned lost the race and got ErrClosed.
C4_Witness ==
  \E p \in Threads :
    /\ SendReturned(p)
    /\ ~call[p].afterClose /\ ~call[p].afterExit
    /\ ret[p] = "ErrClosed"
    /\ ws.closed

\* C5: Close never has to wait for a send or a ping in progress: no Close is
\* at c.writeMu.Lock() while the mutex is held by a send inside conn.Write or
\* by the keepalive loop inside conn.Ping.
C5_CloseNeverWaits ==
  \A p \in Threads :
    pc[p] = "close_lock" =>
      /\ ~(writeMu = PL /\ pl = "pinging")
      /\ \A q \in Threads : writeMu = q => pc[q] # "send_write"

\* C6: once the receive loop has exited, the transport is closed, the handle
\* is cleared and closedCh has been closed exactly once, without a panic from
\* closing it twice.
\* (Runs in which the loop has hit the nil handle of C3 are left aside.)
C6_ExitClosesOnce ==
  \/ rl.panicking
  \/ rl.pc = "exited" =>
       /\ ws.closed /\ ws.closes = 1
       /\ conn = "nil"
       /\ closedCh /\ closeCount = 1
       /\ panic # "close of closed channel"

\* C7 as stated: after the loop has exited on a transport failure, every
\* send-path call that begins yields ErrClosed.
C7_AnySendAfterExitIsErrClosed ==
  \A p \in Threads :
    SendReturned(p) /\ call[p].afterExit /\ rl.err = "transport" =>
      ret[p] = "ErrClosed"

\* C7 amended: a transport failure seen by Read ends the loop and closes the
\* client, and every send-path call that begins after the loop's exit
\* handling and reaches c.send yields ErrClosed and writes nothing; a call
\* stopped by its own check of the context or payload yields that check's
\* result.
C7_TransportFailureClosesClient ==
  /\ (rl.err = "transport" => rl.pc \in {"exit_lock", "exit_conn", "exit_clear",
                                          "exit_unlock", "exit_signal", "exited"})
  /\ (rl.err = "transport" /\ rl.pc = "exited" =>
        conn = "nil" /\ ws.closed /\ closedCh)
  /\ \A p \in Threads :
       SendReturned(p) /\ call[p].afterExit /\ rl.err = "transport" =>
         /\ ~call[p].wrote
         /\ call[p].toSend => ret[p] = "ErrClosed"
         /\ ~call[p].toSend => ret[p] \in PrecheckResults

\* The loop ended on a transport failure with no Close() called, and a send
\* begun afterwards got ErrClosed.
C7_Witness ==
  /\ rl.err = "transport" /\ rl.pc = "exited"
  /\ ~cancelled
  /\ \E p \in Threads :
       SendReturned(p) /\ call[p].afterExit /\ call[p].toSend /\ ret[p] = "ErrClosed"

\* C8: a cleared handle is never set again, a closed closedCh stays closed,
\* and whenever closedCh is closed the handle is cleared.
C8_ClosedIsTerminal ==
  /\ [](closedCh => conn = "nil")
  /\ [][(conn = "nil" => conn' = "nil") /\ (closedCh => closedCh')]_vars

C8_Witness == closedCh /\ conn = "nil" /\ rl.pc = "exited" /\ closeReturned

\* C9: callbacks start in the order their messages arrived, each for the
\* message it was dispatched for, and while one is running the loop has
\* neither read nor dispatched anything after it.
C9_CallbacksInWireOrder ==
  /\ Cardinality(running) <= 1
  /\ running \subseteq {Len(arrived)}
  /\ running # {} => rl.pc = "in_cb"
  /\ \A j \in 1..Len(invoked) :
       /\ invoked[j][1] \in 1..Len(arrived)
       /\ arrived[invoked[j][1]] = TextMsg(invoked[j][2])
       /\ j > 1 => invoked[j - 1][1] < invoked[j][1]

\* Two callbacks have run, for the first and the second message.
C9_Witness ==
  /\ Len(invoked) = 2
  /\ invoked[1][1] = 1 /\ invoked[2][1] = 2
  /\ running = {}

\* Not JSON, or JSON whose type tag no case of dispatch matches.
Undispatchable(m) ==
  m.kind = "text" /\ (~m.json \/ m.type \notin KnownTags(ver))

\* C10: a text message that is not JSON or carries an unknown tag starts no
\* callback and does not end the loop: from decoding it the loop goes back
\* to reading.
C10_BadMessageIsSkipped ==
  /\ [](\A i \in 1..Len(arrived) :
         Undispatchable(arrived[i]) =>
           \A j \in 1..Len(invoked) : invoked[j][1] # i)
  /\ [][rl.pc \in {"decode", "dispatch"} /\ Undispatchable(rl.msg) =>
         /\ rl'.pc \in {rl.pc, "dispatch", "load"}
         /\ invoked' = invoked /\ running' = running]_vars

\* After a message that is not JSON or has an unknown tag, the next
\* message was read and its callback started.
C10_Witness ==
  /\ Len(arrived) >= 2
  /\ Undispatchable(arrived[1])
  /\ \E j \in 1..Len(invoked) : invoked[j][1] = 2


\* C11: a handler registration never deadlocks with dispatch: no goroutine
\* waits at handlerMu.Lock() for a read lock held by the dispatch that is
\* itself waiting for that registration to return (OnX called from inside a
\* callback on the receive loop).
C11_RegistrationNeverDeadlocks ==
  ~(ver = "once" /\ pc[RL] = "on_lock" /\ rl.pc = "in_cb" /\ handlerMu > 0)

\* C12: one callback slot per event type, the later registration wins: a
\* registration that completes stores its callback in the slot of its own tag
\* and leaves every other slot as it was, nothing else changes a slot, and a
\* dispatched event invokes the callback its tag's slot holds at that moment
\* (so after OnX(f1), OnX(f2) it is f2, never f1).
C12_LaterRegistrationOverwrites ==
  [][/\ \A p \in Threads :
          (pc[p] = "on_lock" /\ pc'[p] = "returned")
            => handlers' = [handlers EXCEPT ![call[p].tag] = call[p].fn]
     /\ (handlers' # handlers)
          => \E p \in Threads : pc[p] = "on_lock" /\ pc'[p] = "returned"
     /\ (Len(invoked') > Len(invoked))
          => /\ invoked'[Len(invoked')][2] = UnmarshalEnvelope(rl.msg).Type
             /\ invoked'[Len(invoked')][3] = handlers[invoked'[Len(invoked')][2]]
    ]_vars

\* C12: OnError(f1) then OnError(f2) were registered, the event dispatched
\* after each invoked the callback registered last, and the slot of the
\* other tag is still empty.
C12_Witness ==
  /\ Len(invoked) = 2
  /\ invoked[1] = <<1, TagError, "f1", TRUE>>
  /\ invoked[2] = <<2, TagError, "f2", TRUE>>
  /\ handlers[TagError] = "f2"
  /\ handlers[TagResponseDone] = NoHandler

\* The goroutines that are at a write-side operation of the transport:
\* conn.Write in send, conn.Close in Close and in the receive loop's deferred
\* exit, conn.Ping in the keepalive loop.
AtWriteSide ==
  {p \in Threads : pc[p] \in {"send_write", "close_conn"}}
    \cup (IF rl.pc = "exit_conn" THEN {RL} ELSE {})
    \cup (IF pl \in {"ping_check", "pinging"} THEN {PL} ELSE {})

\* C13: every goroutine at a write-side transport operation holds writeMu, so
\* at most one goroutine at a time is at such an operation.
C13_WriteSideUnderMutex ==
  /\ \A g \in AtWriteSide : writeMu = g
  /\ Cardinality(AtWriteSide) <= 1

\* C13: a send is inside conn.Write while a Close and a keepalive tick both
\* wait for the mutex.
C13_Witness ==
  /\ \E p \in Threads : pc[p] = "send_write"
  /\ \E q \in Threads : pc[q] = "close_lock"
  /\ pl = "ping_lock"

\* The call of p has returned from its method without reaching c.send: the
\* send mutex, the handle and the transport are as they were.
ReturnsAtOnce(p, r) ==
  /\ pc'[p] = "returned"
  /\ ret'[p] = r
  /\ ~call'[p].toSend /\ ~call'[p].wrote
  /\ UNCHANGED <<writeMu, conn, ws>>

\* C14: every send-path method called with a nil context returns the
\* "context cannot be nil" error at once, whatever the payload and whether
\* the client is open or closed, without taking the send mutex and without a
\* transport write.
C14_NilContextRejected ==
  [][\A p \in Threads : \A m \in SendMethods : \A a \in Args(m) :
       (a.ctxNil /\ SendCall(p, m, a))
         => ReturnsAtOnce(p, "SendError(context cannot be nil)")]_vars

\* C14: a call with a nil context has returned its error on a client that is
\* closed.
C14_Witness ==
  \E p \in Threads :
    /\ SendReturned(p)
    /\ ret[p] = "SendError(context cannot be nil)"
    /\ conn = "nil"
    /\ closedCh

\* C15: SessionUpdate and CreateResponse with a payload that fails validation
\* return an error without touching the transport: no write, the send mutex
\* is not taken, the connection state is unchanged.
C15_InvalidPayloadRejected ==
  [][\A p \in Threads : \A m \in {"SessionUpdate", "CreateResponse"} :
       \A a \in Args(m) :
         (~a.valid /\ SendCall(p, m, a))
           => ReturnsAtOnce(p, IF a.ctxNil
                                 THEN "SendError(context cannot be nil)"
                                 ELSE "SendError(validation)")]_vars

\* C15: a validation error has been returned while another goroutine holds
\* the send mutex on an open client.
C15_Witness ==
  \E p \in Threads :
    /\ SendReturned(p)
    /\ ret[p] = "SendError(validation)"
    /\ writeMu \notin {Free, p}
    /\ conn = "ws"

\* C16 as stated: AppendPCM16 with a non-nil context rejects an odd length
\* with "even number of bytes", rejects every length above maxChunkSize with
\* "too large", accepts maxChunkSize, and returns nil without a write for the
\* empty payload.
C16_EveryOversizeIsTooLarge ==
  [][\A p \in Threads : \A a \in Args("AppendPCM16") :
       (~a.ctxNil /\ SendCall(p, "AppendPCM16", a))
         => /\ a.len = 0 => ReturnsAtOnce(p, "nil")
            /\ (a.len % 2 # 0 /\ a.len <= maxChunkSize)
                 => ReturnsAtOnce(p, "SendError(PCM16 data must have even number of bytes)")
            /\ a.len > maxChunkSize
                 => ReturnsAtOnce(p, "SendError(PCM data too large)")
            /\ (a.len # 0 /\ a.len % 2 = 0 /\ a.len <= maxChunkSize)
                 => (pc'[p] = "send_lock" /\ call'[p].toSend)]_vars

\* C16: AppendPCM16 with a non-nil context returns nil without a write for
\* the empty payload, rejects every odd length (also above maxChunkSize) with
\* "even number of bytes", rejects an even length above maxChunkSize with
\* "too large", and passes every other payload, maxChunkSize included, on to
\* c.send.
C16_AppendPCM16Checks ==
  [][\A p \in Threads : \A a \in Args("AppendPCM16") :
       (~a.ctxNil /\ SendCall(p, "AppendPCM16", a))
         => /\ a.len = 0 => ReturnsAtOnce(p, "nil")
            /\ a.len % 2 # 0
                 => ReturnsAtOnce(p, "SendError(PCM16 data must have even number of bytes)")
            /\ (a.len % 2 = 0 /\ a.len > maxChunkSize)
                 => ReturnsAtOnce(p, "SendError(PCM data too large)")
            /\ (a.len # 0 /\ a.len % 2 = 0 /\ a.len <= maxChunkSize)
                 => (pc'[p] = "send_lock" /\ call'[p].toSend)]_vars

\* C16: an AppendPCM16 was rejected as too large on an open client.
C16_Witness ==
  \E p \in Threads :
    /\ SendReturned(p)
    /\ ret[p] = "SendError(PCM data too large)"
    /\ conn = "ws"
    /\ ~call[p].wrote

\* C17: no two calls that generate an event id, sequential or concurrent,
\* obtain the same id.
C17_EventIDsUnique ==
  \A i \in 1..Len(issued) : \A j \in 1..Len(issued) :
    i # j => issued[i] # issued[j]

\* Concatenation of a sequence of sequences, in order.
RECURSIVE Flatten(_)
Flatten(ss) == IF ss = <<>> THEN <<>> ELSE Head(ss) \o Flatten(Tail(ss))

\* The step is a call of method o of assembler a.
IsOp(a, o) == ops' = ops + 1 /\ last'.asm = a /\ last'.op = o

\* C18: for both assemblers, OnDone(key) with no final text returns the
\* concatenation, in call order, of the deltas accepted for the key since its
\* last OnDone: the empty value for a key never seen and for a second OnDone
\* right after the first; it never returns an error.
C18_OnDoneReturnsConcatenation ==
  [][/\ (IsOp("text", "OnDone") /\ last'.text = <<>>)
          => /\ last'.ret = Flatten(acc.text[last'.key])
             /\ last'.err = "nil"
     /\ IsOp("audio", "OnDone")
          => /\ last'.ret = Flatten(acc.audio[last'.key])
             /\ last'.err = "nil"
     /\ (last.op = "OnDone" /\ last'.op = "OnDone" /\ ops' = ops + 1
          /\ last'.asm = last.asm /\ last'.key = last.key /\ last'.text = <<>>)
          => last'.ret = <<>>
    ]_vars

\* C18: two different text deltas were given for a key, OnDone returned them
\* joined in call order, and the OnDone right after it returned "".
C18_Witness ==
  /\ ops = 4
  /\ prev = Op("text", "OnDone", "resp_1", <<>>, <<"a", "b">>, "nil")
  /\ last = Op("text", "OnDone", "resp_1", <<>>, <<>>, "nil")

\* C19: TextAssembler.OnDone with a non-empty final text returns that text
\* whatever was accumulated, and removes the key's buffer, so that an OnDone
\* with empty text that follows it returns "".
C19_FinalTextOverrides ==
  [][/\ (IsOp("text", "OnDone") /\ last'.text # <<>>)
          => /\ last'.ret = last'.text
             /\ last'.key \notin DOMAIN textData'
     /\ (last.asm = "text" /\ last.op = "OnDone" /\ last.text # <<>>
          /\ IsOp("text", "OnDone") /\ last'.key = last.key /\ last'.text = <<>>)
          => last'.ret = <<>>
    ]_vars

\* C19: a delta "a" was accumulated for a key, OnDone with final text "z"
\* returned "z", and the OnDone with empty text after it returned "".
C19_Witness ==
  /\ acc.text["resp_1"] = <<>>
  /\ prev = Op("text", "OnDone", "resp_1", <<"z">>, <<"z">>, "nil")
  /\ last = Op("text", "OnDone", "resp_1", <<>>, <<>>, "nil")
  /\ ops = 3

\* C20: the keys of each assembler's map are exactly the keys that accepted
\* a delta since their last OnDone, and a call on one key leaves the buffer
\* of every other key, in both assemblers, as it was.
C20_KeysAreIncompleteStreams ==
  /\ [](/\ DOMAIN textData = {k \in Keys : acc.text[k] # <<>>}
        /\ DOMAIN audioData = {k \in Keys : acc.audio[k] # <<>>})
  /\ [][ops' = ops + 1
          => \A k \in Keys :
               (k # last'.key \/ last'.asm # "text")
                 => /\ (k \in DOMAIN textData') = (k \in DOMAIN textData)
                    /\ Lookup(textData', k) = Lookup(textData, k)
    ]_vars
  /\ [][ops' = ops + 1
          => \A k \in Keys :
               (k # last'.key \/ last'.asm # "audio")
                 => /\ (k \in DOMAIN audioData') = (k \in DOMAIN audioData)
                    /\ Lookup(audioData', k) = Lookup(audioData, k)
    ]_vars

\* C20: two streams were being assembled, one key of the audio assembler
\* refused a delta that is not base64, and OnDone of one text key left the
\* other text key's buffer in place.
C20_Witness ==
  /\ ops = 4
  /\ last = Op("text", "OnDone", "resp_1", <<>>, <<"a">>, "nil")
  /\ DOMAIN textData = {"resp_2"}
  /\ textData["resp_2"] = <<98>>
  /\ prev.asm = "audio" /\ prev.err = "CorruptInputError"
  /\ DOMAIN audioData = {}

\* WithRetry, WithRetryableClient and DialWithRetry.
SpecRetry == Init /\ [][NextRetry]_vars

\* calculateDelay.
SpecDelay == Init /\ [][NextDelay]_vars

\* CircuitBreaker.
SpecBreaker == Init /\ [][NextBreaker]_vars

\* WithRetry when the operation returns and the timers fire: every step of
\* the call is eventually taken.
SpecRetryFair ==
  /\ Init
  /\ [][NextRetry]_vars
  /\ WF_vars(RetryLoop)
  /\ WF_vars(\E r \in OpResults(rt.op) : RetryInvoke(r))
  /\ WF_vars(RetryCheck)
  /\ WF_vars(RetrySelect)
  /\ WF_vars(RetryTimer)
  /\ WF_vars(RetryCancelled)
  /\ WF_vars(RetryFailed)

\* The predicate of the configuration deems every failure retryable.
AllRetryable(config) == config.RetryableErrors \in {"nil", "all"}

\* The predicate of the configuration reports e as not retryable.
NonRetryable(config, e) ==
  /\ config.RetryableErrors # "nil"
  /\ ~RetryableErrors(config.RetryableErrors, e)

\* WithRetry has returned nil right after a success.
RetrySucceeded == rt.ret = <<"nil">> /\ rt.err = "nil"

\* WithRetry has returned the error that wraps the last of N+1 failures.
RetryExhausted ==
  /\ rt.calls = rt.config.MaxRetries + 1
  /\ rt.err # "nil"
  /\ rt.ret = <<"operation failed after attempts", rt.config.MaxRetries + 1,
                rt.err>>

\* WithRetry has returned 'retry cancelled' from a backoff wait, after a
\* failure that was not the last attempt.
RetryWasCancelled ==
  /\ ctxDone
  /\ rt.ret = <<"retry cancelled", "context canceled">>
  /\ rt.calls >= 1 /\ rt.calls <= rt.config.MaxRetries
  /\ rt.err # "nil"

\* C21 as stated: with MaxRetries = N and every failure retryable the
\* operation is invoked until its first success or N+1 invocations: nothing
\* is invoked after a success, WithRetry returns nil after the success or
\* the error wrapping the last failure after N+1 failures, and it always
\* returns.
C21_StopsOnlyOnSuccessOrExhaustion ==
  /\ [](AllRetryable(rt.config) /\ rt.config.MaxRetries >= 0 /\ rt.pc # "idle" =>
         /\ rt.calls <= rt.config.MaxRetries + 1
         /\ (rt.calls > 0 /\ rt.err = "nil" => rt.pc \in {"check", "returned"})
         /\ (rt.pc = "returned" => RetrySucceeded \/ RetryExhausted))
  /\ (rt.pc # "idle" ~> rt.pc = "returned")

\* C21 amended: with MaxRetries = N and every failure retryable, and unless
\* the context is cancelled before or during a backoff wait, the operation
\* is invoked until its first success or N+1 invocations; a cancelled
\* context ends the call with 'retry cancelled' after fewer invocations.
\* WithRetry always returns.
C21_RetriesUntilSuccessOrExhaustion ==
  /\ [](AllRetryable(rt.config) /\ rt.config.MaxRetries >= 0 /\ rt.pc # "idle" =>
         /\ rt.calls <= rt.config.MaxRetries + 1
         /\ (rt.calls > 0 /\ rt.err = "nil" => rt.pc \in {"check", "returned"})
         /\ (rt.pc = "returned" =>
               RetrySucceeded \/ RetryExhausted \/ RetryWasCancelled))
  /\ (rt.pc # "idle" ~> rt.pc = "returned")

\* N = 2: three failures, two completed waits, the wrapped last failure.
C21_Witness ==
  /\ AllRetryable(rt.config) /\ rt.config.MaxRetries = MaxN
  /\ rt.pc = "returned" /\ RetryExhausted /\ rt.slept = MaxN

\* C22: after a failure the predicate reports as not retryable, WithRetry
\* does nothing but return the error wrapping that failure: no further
\* invocation and no backoff wait, whatever attempts remain.
C22_NonRetryableReturnsAtOnce ==
  rt.calls > 0 /\ rt.err # "nil" /\ NonRetryable(rt.config, rt.err) =>
    /\ rt.pc \in {"check", "returned"}
    /\ rt.waits = rt.calls - 1
    /\ rt.pc = "returned" => rt.ret = <<"non-retryable error", rt.err>>

\* A second invocation fails with a non-retryable error while attempts
\* remain.
C22_Witness ==
  /\ rt.pc = "returned" /\ rt.calls = 2 /\ rt.attempt < rt.config.MaxRetries
  /\ NonRetryable(rt.config, rt.err)
  /\ rt.ret = <<"non-retryable error", rt.err>>

\* C23: when the context is cancelled while WithRetry is in a backoff wait,
\* WithRetry returns 'retry cancelled': the wait is not completed and the
\* operation is not invoked again.
C23_CancelDuringWait ==
  rt.hit =>
    /\ rt.pc \in {"woken", "returned"}
    /\ rt.calls = rt.waits /\ rt.slept = rt.waits - 1
    /\ rt.pc = "returned" => rt.ret = <<"retry cancelled", "context canceled">>

\* The context is cancelled during the second wait.
C23_Witness ==
  rt.hit /\ rt.pc = "returned" /\ rt.calls = 2 /\ rt.delay > 0

\* min(MaxDelay, BaseDelay * Multiplier^k)
MinDelay(k, config) ==
  IF config.BaseDelay * Pow(config.Multiplier, k) < config.MaxDelay
    THEN config.BaseDelay * Pow(config.Multiplier, k)
    ELSE config.MaxDelay

\* C24: for every attempt index and every configuration, a non-zero Jitter
\* included, the delay calculateDelay returns does not exceed MaxDelay, and
\* without jitter it is min(MaxDelay, BaseDelay * Multiplier^k).
C24_DelayNeverExceedsMaxDelay ==
  dl.called =>
    /\ dl.out <= dl.config.MaxDelay
    /\ dl.config.Jitter = 0 => dl.out = MinDelay(dl.attempt, dl.config)

\* The operation is a client method given a payload that fails validation.
FailsValidation(op) ==
  /\ op.kind = "client"
  /\ Precheck(op.m, [ctxNil |-> FALSE, valid |-> op.valid, marshals |-> TRUE,
                     len |-> op.len]) \notin {"send", "nil"}

\* C25: a WithRetryableClient with the default policy, asked to
\* SessionUpdate, CreateResponse or AppendPCM16 with a payload that fails
\* validation, invokes the client method once and waits for no backoff.
C25_ValidationFailureNeverRetried ==
  rt.pc # "idle" /\ rt.config = DefaultRetryConfig /\ FailsValidation(rt.op) =>
    rt.calls <= 1 /\ rt.waits = 0

ExecuteStep == execs' = execs + 1

\* The recovery timeout has elapsed since the last failure.
TimeoutElapsed == Since(cb.lastFailureTime, now) >= cbcfg.RecoveryTimeout

\* C27: while the breaker is Closed its failure count is the number of
\* consecutive failed Execute calls and is below FailureThreshold (a success
\* resets it); an Execute on a Closed breaker runs the operation and leaves
\* the breaker Open exactly when that number has reached FailureThreshold,
\* recording the time of the failure, and Closed otherwise.
C27_OpensAtFailureThreshold ==
  /\ [](cb.state = "Closed" =>
          cb.failures = streak /\ streak < cbcfg.FailureThreshold)
  /\ [][ExecuteStep /\ cb.state = "Closed" =>
          /\ lastExec'.invoked
          /\ cb'.state \in {"Closed", "Open"}
          /\ cb'.state = "Open" <=> streak' = cbcfg.FailureThreshold
          /\ cb'.state = "Open" =>
               cb'.lastFailureTime = [zero |-> FALSE, at |-> now]
          /\ lastExec'.ret = "nil" => cb'.failures = 0 /\ streak' = 0]_vars

\* FailureThreshold 2: the fourth Execute is the second failure in a row and
\* opens the breaker, the earlier failures having been cut short by a
\* success.
C27_Witness ==
  /\ cbcfg.FailureThreshold = 2 /\ execs = 4 /\ streak = 2
  /\ lastExec.before.state = "Closed" /\ lastExec.before.failures = 1
  /\ cb.state = "Open"

\* C28: an Execute on an Open breaker before the recovery timeout has
\* elapsed returns 'circuit breaker is open', does not run the operation and
\* leaves the state, both counters and the last-failure time as they were.
C28_OpenRejects ==
  [][ExecuteStep /\ cb.state = "Open" /\ ~TimeoutElapsed =>
       /\ lastExec'.ret = "circuit breaker is open"
       /\ ~lastExec'.invoked
       /\ cb' = cb]_vars

\* An Execute has been rejected by the Open breaker.
C28_Witness ==
  /\ lastExec.ret = "circuit breaker is open" /\ ~lastExec.invoked
  /\ lastExec.before.state = "Open" /\ cb = lastExec.before
  /\ lastExec.at - cb.lastFailureTime.at < cbcfg.RecoveryTimeout

\* C29: an Execute on an Open breaker after the recovery timeout moves it
\* to Half-Open and runs the operation; a successful operation run in
\* Half-Open closes the breaker exactly when it is the SuccessThreshold-th
\* success in a row there, and leaves it Half-Open otherwise.
C29_HalfOpenClosesAtSuccessThreshold ==
  /\ [](cb.state = "HalfOpen" =>
          cb.successes = hsucc /\ hsucc < cbcfg.SuccessThreshold)
  /\ [][ExecuteStep /\ cb.state = "Open" /\ TimeoutElapsed =>
          lastExec'.allowedAs = "HalfOpen" /\ lastExec'.invoked]_vars
  /\ [][ExecuteStep /\ lastExec'.allowedAs = "HalfOpen" /\ lastExec'.ret = "nil" =>
          /\ cb'.state \in {"HalfOpen", "Closed"}
          /\ cb'.state = "Closed" <=> hsucc' = cbcfg.SuccessThreshold]_vars

\* SuccessThreshold 2: the probe after the timeout and the next operation
\* both succeed, and the second success closes the breaker.
C29_Witness ==
  /\ cbcfg.SuccessThreshold = 2 /\ hsucc = 2
  /\ lastExec.before.state = "HalfOpen" /\ lastExec.ret = "nil"
  /\ cb.state = "Closed"

\* C30: a failed operation run while the breaker is Half-Open leaves it
\* Open with the last-failure time set to the time of the failure, whatever
\* number of successes preceded it in Half-Open.
C30_HalfOpenFailureReopens ==
  [][ExecuteStep /\ lastExec'.allowedAs = "HalfOpen" /\ lastExec'.invoked
       /\ lastExec'.ret # "nil" =>
       /\ cb'.state = "Open"
       /\ cb'.lastFailureTime = [zero |-> FALSE, at |-> now]]_vars

\* ValidateSession.
SpecValidate == Init /\ [][NextValidate]_vars

\* The rules of a session: every present field is in its domain.
SatisfiesRules(s) ==
  /\ s.Voice.set => s.Voice.v \in validVoices
  /\ s.InputAudioFormat.set => s.InputAudioFormat.v \in validFormats
  /\ s.OutputAudioFormat.set => s.OutputAudioFormat.v \in validFormats
  /\ s.TurnDetection.set =>
       LET td == s.TurnDetection.v
       IN /\ td.Type # "" /\ td.Type \in validTypes
          /\ td.Type = "server_vad" =>
               /\ ~td.Threshold.nan
               /\ td.Threshold.v >= 0 /\ td.Threshold.v <= 1000
               /\ td.PrefixPaddingMS >= 0
               /\ td.SilenceDurationMS >= 0
          /\ td.Type = "semantic_vad" =>
               td.Eagerness = "" \/ td.Eagerness \in validEagerness
  /\ s.Instructions.set => s.Instructions.v.chars <= 10000

\* C31: ValidateSession accepts a session if and only if every present
\* field satisfies its rule, the instructions being at most 10,000
\* characters and the server_vad threshold lying in [0.0, 1.0].
C31_AcceptsIffRulesHold ==
  vs.called => (vs.err = "nil" <=> SatisfiesRules(vs.s))

\* The deltas whose text is not base64.
InvalidAudioDeltas == {c \in AudioDeltas : c.b64 # <<>> /\ c.raw = <<>>}

\* C32: AudioAssembler.OnDelta with a delta that is not valid base64 returns
\* an error and leaves every buffer of the assembler as it was, and a later
\* OnDone returns the bytes of the deltas that were decoded, and only those.
C32_InvalidBase64LeavesBuffers ==
  /\ [][\A k \in Keys : \A c \in InvalidAudioDeltas :
          AsmAudioOnDelta(k, c) =>
            /\ last'.err = "CorruptInputError"
            /\ audioData' = audioData
            /\ textData' = textData]_vars
  /\ [][IsOp("audio", "OnDone") /\ prev'.asm = "audio" /\ prev'.err # "nil" =>
          last'.ret = Flatten(acc.audio[last'.key])]_vars

\* A key accepted a delta, refused one that is not base64, and OnDone then
\* returned the bytes of the first.
C32_Witness ==
  /\ ops = 3
  /\ last = Op("audio", "OnDone", "resp_1", <<>>, <<1, 2>>, "nil")
  /\ prev = Op("audio", "OnDelta", "resp_1", <<>>, <<>>, "CorruptInputError")

\* The receive loop against payloads that do not decode.
SpecPayload == Init /\ [][NextPayload]_vars

\* C33: a text message with a known tag causes at most one callback
\* invocation: when it is dispatched, the callback then registered for its
\* tag, and no other, is invoked once, nothing is invoked when that slot is
\* empty, and no other step of the program invokes a callback.
C33_OneCallbackPerMessage ==
  /\ [](\A j, k \in 1..Len(invoked) : invoked[j][1] = invoked[k][1] => j = k)
  /\ [][rl.pc = "dispatch" /\ rl'.pc # "dispatch" /\ rl.msg.type \in KnownTags(ver) =>
          IF handlers[rl.msg.type] # NoHandler
            THEN /\ Len(invoked') = Len(invoked) + 1
                 /\ SubSeq(invoked', 1, Len(invoked)) = invoked
                 /\ invoked'[Len(invoked')][1] = Len(arrived)
                 /\ invoked'[Len(invoked')][2] = rl.msg.type
                 /\ invoked'[Len(invoked')][3] = handlers[rl.msg.type]
            ELSE invoked' = invoked]_vars
  /\ [][rl.pc # "dispatch" => invoked' = invoked]_vars

\* With f1 registered for "error" and f2 for "response.done", a
\* "response.done" message invoked f2 and nothing else.
C33_Witness ==
  /\ handlers[TagError] = "f1" /\ handlers[TagResponseDone] = "f2"
  /\ arrived = <<TextMsg(TagResponseDone)>>
  /\ invoked = <<<<1, TagResponseDone, "f2", TRUE>>>>
  /\ rl.pc = "load"

\* The loop has finished with message i.
Processed(i) ==
  i < Len(arrived) \/ rl.pc \notin {"decode", "dispatch", "in_cb"}

\* C34: a message whose tag is known and whose payload does not decode into
\* the event of that tag is logged by the receive loop, and the loop goes on
\* to the next message.
C34_UndecodablePayloadIsLogged ==
  /\ [](\A i \in 1..Len(arrived) :
          ~arrived[i].shape /\ Processed(i) =>
            \E j \in 1..Len(logged) : logged[j][1] = i)
  /\ [][rl.pc \in {"dispatch", "in_cb"} /\ ~rl.msg.shape /\ rl'.pc # rl.pc =>
          rl'.pc \in {"in_cb", "load"}]_vars

\* C35: the send path releases writeMu on every exit: a goroutine whose
\* send-path call has returned, with whatever result, does not hold the
\* mutex, and the step by which a call that took the mutex returns leaves
\* the mutex free.
C35_SendReleasesMutex ==
  /\ [](\A p \in Threads : SendReturned(p) => writeMu # p)
  /\ [][\A p \in Threads :
          writeMu = p /\ call[p].kind = "send" /\ pc'[p] = "returned" =>
            writeMu' = Free]_vars

\* A send that ended in a timeout has returned and the mutex is free.
C35_Witness ==
  \E p \in Threads :
    /\ SendReturned(p) /\ call[p].wrote
    /\ ret[p] = "SendError(ErrSendTimeout)"
    /\ writeMu = Free

\* C36: a write that fails on its deadline is returned as a SendError whose
\* cause is ErrSendTimeout (IsTimeout is true), any other write failure as a
\* SendError whose cause is the transport's error (IsTimeout is false);
\* neither is ErrClosed, and the steps from the write to the return leave
\* the handle as it was.
C36_WriteFailuresAreSendErrors ==
  /\ [](\A p \in Threads :
          SendReturned(p) /\ call[p].wrote /\ call[p].werr # "nil" =>
            /\ ret[p] \in SendErrors /\ ret[p] # "ErrClosed"
            /\ call[p].werr = "context.DeadlineExceeded" =>
                 IsTimeout(ret[p])
            /\ call[p].werr # "context.DeadlineExceeded" =>
                 ~IsTimeout(ret[p]) /\ Cause(ret[p]) = call[p].werr)
  /\ [][\A p \in Threads :
          pc[p] \in {"send_write", "send_unlock"} /\ pc'[p] # pc[p] =>
            conn' = conn]_vars

\* A send whose write failed with the transport's own error has returned a
\* SendError wrapping it, with the handle still in place.
C36_Witness ==
  \E p \in Threads :
    /\ SendReturned(p) /\ call[p].werr = "transport error"
    /\ ret[p] = "SendError(write)" /\ conn = "ws"

\* Shutdown under fair scheduling: every goroutine that can take a step
\* eventually takes it, a mutex that is free again and again is eventually
\* acquired by each waiter, and the keepalive loop's select takes its
\* closedCh case between two ticks.  The peer, the ticker, transport failure
\* and the callers' decisions to call are not forced.
SpecShutdown ==
  /\ Init
  /\ [][NextShutdown]_vars
  /\ WF_vars(RlLoad) /\ WF_vars(RlReadNil) /\ WF_vars(RlReadErr)
  /\ WF_vars(RlDecode) /\ WF_vars(RlDispatch) /\ WF_vars(CbReturn)
  /\ SF_vars(RlExitLock) /\ WF_vars(RlExitConn) /\ WF_vars(RlExitClear)
  /\ WF_vars(RlExitUnlock) /\ WF_vars(RlExitSignal)
  /\ SF_vars(PlClosed) /\ SF_vars(PlLock) /\ WF_vars(PlCheck)
  /\ WF_vars(PlPong) /\ WF_vars(PlUnlock)
  /\ \A p \in Threads :
       /\ SF_vars(CloseLock(p)) /\ WF_vars(CloseConn(p))
       /\ WF_vars(CloseClear(p)) /\ WF_vars(CloseUnlock(p))
       /\ WF_vars(CloseSignal(p))
       /\ SF_vars(SendLock(p)) /\ WF_vars(SendCheck(p))
       /\ WF_vars(SendWrite(p)) /\ WF_vars(SendUnlock(p))
       /\ WF_vars(OnHandlerSet(p)) /\ WF_vars(Return(p))

\* Every callback returns: the receive loop is not inside a callback for
\* ever.
CallbacksReturn == []<>(rl.pc # "in_cb")

\* C37: provided every callback returns, once Close() has been called both
\* the receive loop and the keepalive loop terminate, the process still
\* running; and the keepalive loop pings only with the handle present.
C37_LoopsTerminateAfterClose ==
  /\ CallbacksReturn =>
       (cancelled ~> (rl.pc = "exited" /\ pl = "done" /\ Alive))
  /\ [][pl = "ping_check" /\ pl' = "pinging" => conn # "nil"]_vars

\* C38: no state in which a send issued from inside a callback waits for
\* writeMu, the keepalive loop holds writeMu waiting in Ping for a pong, and
\* the receive loop, the only reader of pongs, waits for the callback.
C38_NoSendPingDeadlock ==
  ~(/\ rl.pc = "in_cb" /\ pc[RL] = "send_lock" /\ call[RL].kind = "send"
    /\ writeMu = PL /\ pl = "pinging"
    /\ ~ws.broken /\ ~ws.closed /\ rl.err = "none")

\* C39: in every reachable state of a breaker used by one goroutine, a
\* Closed breaker has fewer failures counted than FailureThreshold, and an
\* Open breaker's most recent executed operation failed.
C39_BreakerInvariant ==
  /\ cb.state = "Closed" => cb.failures < cbcfg.FailureThreshold
  /\ cb.state = "Open" => streak > 0 /\ cb.failures >= cbcfg.FailureThreshold

\* The breaker is Open, the last Execute was rejected, and the last
\* operation that ran had failed.
C39_Witness ==
  /\ cb.state = "Open" /\ ~lastExec.invoked /\ streak > 0
  /\ lastExec.ret = "circuit breaker is open"

\* C40: for every configuration, MaxRetries 0 and negative included, and
\* every state of the context, WithRetry has invoked the operation at least
\* once when it returns, and an error it returns wraps an error the
\* operation or the context produced.
C40_InvokesAtLeastOnce ==
  rt.pc = "returned" =>
    /\ rt.calls >= 1
    /\ rt.ret # <<"nil">> => rt.ret[Len(rt.ret)] # "nil"
====
